---- MODULE Spec2Model ----
(***************************************************************************)
(* Model of go-alac-bot's request queue (bot/song_queue.go).               *)
(*                                                                         *)
(* SongQueue keeps a pending list, a processing slot and a flag telling    *)
(* whether a drain goroutine is running.  AddRequest runs under sq.mu and  *)
(* spawns one processQueue goroutine per admitted request; processQueue    *)
(* is a sequence of critical sections (processingMutex, then sq.mu) with   *)
(* unlocked code in between, so it is modelled as one action per atomic    *)
(* section, each goroutine carrying its position and its local `request`.  *)
(* Goroutines are anonymous, so they are kept in a bag.                    *)
(*                                                                         *)
(* Further parts, each with its own variables and specifications: the      *)
(* download pipeline (downloader/song_downloader_impl.go), the progress    *)
(* tracker and its reporter (downloader/errors.go,                         *)
(* downloader/telegram_progress_reporter.go) and the retry loop of the     *)
(* error handler (bot/error_handler.go).                                   *)
(***************************************************************************)
EXTENDS Bags, FiniteSets, Integers, Sequences, TLC

\* ---------------------------------------------------------------- constants
MaxQueueSize == 7

\* QueueStatus values, by their String() names
StatusQueued     == "queued"
StatusProcessing == "processing"
StatusCompleted  == "completed"
StatusFailed     == "failed"
QueueStatus == {StatusQueued, StatusProcessing, StatusCompleted, StatusFailed}

\* ------------------------------------------------------------------- bounds
\* AddRequest calls in a behaviour of Spec
MaxCalls == 4
\* message ids a caller of Spec may submit: 1..NumMessages
NumMessages == 3
\* AddRequest calls, each with a new message id, in a behaviour of SpecDistinct
MaxBurst == 8
\* pipeline runs that may return an error in a behaviour
MaxFailures == 2

\* The callers: one sender in one chat; the message id distinguishes requests.
SenderIDs == {42}
ChatIDs == {-100}
MessageIDs == 1..NumMessages

VARIABLES
    queue,          \* sq.queue: sequence of request ids (pointers to QueueRequest)
    processing,     \* sq.processing: request id, 0 for nil
    isProcessing,   \* sq.isProcessing
    uid,            \* uid[r]: QueueRequest.UniqueID of request r (r = order of admission)
    status,         \* status[r]: QueueRequest.Status of request r
    threads,        \* bag of processQueue goroutines [pc, request]
    runs,           \* history: runs[r] = number of ProcessDownload calls made for r
    cleared,        \* history: requests discarded by ClearQueue
    ncalls,         \* history: number of AddRequest calls made
    last            \* history: the last AddRequest call and what it returned

\* the request queue's variables
qvars == <<queue, processing, isProcessing, uid, status, threads, runs, cleared, ncalls, last>>

\* One SongDownloaderImpl and the /song command that drives it
\* (downloader/song_downloader_impl.go, SongHandler.Handle, CommandRouter.RouteCommand).
VARIABLES
    dpc,            \* position of the command: "idle", the pipeline stage in progress, "returned", "handled"
    isActive,       \* sd.isActive
    phase,          \* sd.status.Phase
    ctxDone,        \* downloadCtx is cancelled (sd.Cancel or the caller's context)
    file,           \* what is at filePath: "absent", "partial" or "complete"
    before,         \* history: what was at filePath when this run started
    keysLen,        \* len(keys) returned by ExtractMedia
    samples,        \* info.samples returned by extractSong: [descIndex, size]
    dec,            \* decryptSong's locals and its connection
    wire,           \* history: what decryptSong wrote to the connection, in order
    ret,            \* what Download returned: [type, cause], type "" while it runs
    trace,          \* history: phases assigned, stages started and callbacks made by this run
    cancelAt,       \* history: the stage in progress when cancellation was signalled, "" if none
    chat,           \* history: user-visible error reports made in the chat for this command
    errorHandler,   \* the bot has an ErrorHandler (handler.errorHandler, router.errorHandler non-nil)
    nruns           \* history: number of Download calls made

dvars == <<dpc, isActive, phase, ctxDone, file, before, keysLen, samples, dec, wire, ret, trace,
           cancelAt, chat, errorHandler, nruns>>

\* One ProgressTracker with its reporter (downloader/errors.go lines 113-304,
\* downloader/telegram_progress_reporter.go).  A session is what one successful Start
\* creates: the channels updateChan, stopChan, doneChan, the context and the ticker.
VARIABLES
    ptRunning,        \* pt.isRunning
    ptSession,        \* the session whose channels and context are in pt's fields, 0: none
    ptTicker,         \* pt.ticker: the session whose ticker it is, 0 for nil
    currentPhase,     \* pt.currentPhase, -1 at first
    currentProgress,  \* pt.currentProgress
    updateChan,       \* updateChan[s]: the updates buffered in session s's channel
    stopChan,         \* the sessions whose stopChan is closed and context cancelled
    doneChan,         \* the sessions whose doneChan is closed
    tickers,          \* the sessions whose ticker was stopped
    loops,            \* the updateLoop goroutines: [own, bound, ticker, pc, lastReportedPhase]
    callers,          \* callers[c]: where goroutine c is in Start or Stop
    producer,         \* the goroutine that calls UpdateProgress: [pc, update]
    rActive,          \* the reporter's isActive (with a message to edit)
    reports,          \* history: the calls made to the reporter, in order
    submitted,        \* history: the updates handed to UpdateProgress, in order
    ncall             \* history: numbers of Start calls, Stop calls and ticks

tvars == <<ptRunning, ptSession, ptTicker, currentPhase, currentProgress, updateChan,
           stopChan, doneChan, tickers, loops, callers, producer, rActive, reports,
           submitted, ncall>>

\* One call of ErrorHandler.retryWithBackoff (bot/error_handler.go)
VARIABLES
    retry             \* the call's arguments, locals and result

evars == <<retry>>

\* The command router (bot/router.go) with the panics of its handlers
VARIABLES
    router            \* the call in progress and the history of the calls

\* One call of ExtractMedia (downloader/song_downloader_impl.go)
VARIABLES
    media             \* the variants of the master playlist, the loop and the result

\* One call of extractSong (downloader/song_downloader_impl.go) and what Download
\* does with what it returns
VARIABLES
    frag              \* the boxes of the file, the loop over the moofs and the result

\* The cleaning and parsing of the URL at the head of Download
VARIABLES
    url               \* two inputs, one the other with a NUL and more appended, and
                      \* what parsing each of them gives

\* One call of WriteM4a (downloader/song_downloader_impl.go)
VARIABLES
    m4a               \* the sizes of the samples and the tables and the mdat written

\* One /queue command building its status message (bot/queue_handler.go)
VARIABLES
    obs               \* its position and what it has read of the queue so far

\* One downloader called by several goroutines (downloader/song_downloader_impl.go)
VARIABLES
    sd                \* isActive, cancelFunc, the contexts cancelled so far and
                      \* where each goroutine is in its Download call

svars == <<router, media, frag, url, m4a, obs, sd>>

\* all variables but one of the stages
butRouter == <<qvars, dvars, tvars, evars, media, frag, url, m4a, obs, sd>>
butMedia == <<qvars, dvars, tvars, evars, router, frag, url, m4a, obs, sd>>
butFrag == <<qvars, dvars, tvars, evars, router, media, url, m4a, obs, sd>>
butUrl == <<qvars, dvars, tvars, evars, router, media, frag, m4a, obs, sd>>
butM4a == <<qvars, dvars, tvars, evars, router, media, frag, url, obs, sd>>
butObs == <<qvars, dvars, tvars, evars, router, media, frag, url, m4a, sd>>
butSd == <<qvars, dvars, tvars, evars, router, media, frag, url, m4a, obs>>

vars == <<qvars, dvars, tvars, evars, svars>>

\* ------------------------------------------------------------------ helpers
Range(s) == {s[i] : i \in DOMAIN s}

Thread(p, r) == [pc |-> p, request |-> r]
Spawn(b, t) == b (+) SetToBag({t})
Retire(b, t) == b (-) SetToBag({t})
Move(b, t, u) == Spawn(Retire(b, t), u)
Running == BagToSet(threads)
\* number of goroutines whose position is in P
CountAt(P) ==
    LET ts == {t \in Running : t.pc \in P}
        RECURSIVE Sum(_)
        Sum(S) == IF S = {} THEN 0
                  ELSE LET t == CHOOSE x \in S : TRUE
                       IN CopiesIn(t, threads) + Sum(S \ {t})
    IN Sum(ts)

\* fmt.Sprintf("%d:%d:%d", senderID, chatID, messageID)
GenerateUniqueID(senderID, chatID, messageID) ==
    ToString(senderID) \o ":" \o ToString(chatID) \o ":" \o ToString(messageID)

\* fmt.Errorf("queue is full (max %d requests)", MaxQueueSize)
ErrQueueFull == "queue is full (max " \o ToString(MaxQueueSize) \o " requests)"
\* fmt.Errorf("request with ID %s already exists", uniqueID)
ErrExists(uniqueID) == "request with ID " \o uniqueID \o " already exists"
NoError == "nil"

\* the pending request with this UniqueID, 0 when there is none
findRequestByID(uniqueID) ==
    IF \E i \in DOMAIN queue : uid[queue[i]] = uniqueID
    THEN queue[CHOOSE i \in DOMAIN queue :
                  /\ uid[queue[i]] = uniqueID
                  /\ \A j \in DOMAIN queue : uid[queue[j]] = uniqueID => i <= j]
    ELSE 0

\* AddRequest line 83, with the comparison off by one
queueIsFull_OffByOne == Len(queue) > MaxQueueSize

\* AddRequest line 83: len(sq.queue) >= MaxQueueSize
queueIsFull == Len(queue) >= MaxQueueSize

\* processQueue line 199, taking the newest request instead of the oldest
nextRequest_Newest == queue[Len(queue)]

\* processQueue line 199: request := sq.queue[0]
nextRequest == Head(queue)

\* what SongHandler.ProcessDownload can return: nil or an error
ProcessDownload == {NoError, "network_failure"}

\* --------------------------------------------------------------------- Init
\* NewSongQueue
InitQueue ==
    /\ queue = <<>>
    /\ processing = 0
    /\ isProcessing = FALSE
    /\ uid = <<>>
    /\ status = <<>>
    /\ threads = EmptyBag
    /\ runs = <<>>
    /\ cleared = {}
    /\ ncalls = 0
    /\ last = [uniqueID |-> "", err |-> NoError, request |-> 0, size |-> 0, taken |-> 0]

\* NewSongDownloaderImpl, no command received yet
InitDownload ==
    /\ dpc = "idle"
    /\ isActive = FALSE
    /\ phase = "validating"
    /\ ctxDone = FALSE
    /\ file \in {"absent", "complete"}
    /\ before = file
    /\ keysLen = 0
    /\ samples = <<>>
    /\ dec = [pc |-> "idle", i |-> 0, lastIndex |-> 0, decrypted |-> 0,
              conn |-> "none", dials |-> 0, lookups |-> {}, plain |-> <<>>]
    /\ wire = <<>>
    /\ ret = [type |-> "", cause |-> ""]
    /\ trace = <<>>
    /\ cancelAt = [stage |-> "", i |-> 0]
    /\ chat = 0
    /\ errorHandler \in BOOLEAN
    /\ nruns = 0

\* the goroutines that call Start and Stop
Callers == {"a", "b"}
\* Progress{}
NoProgress == [bytes |-> 0, total |-> 0]

\* NewProgressTracker and NewTelegramProgressReporter: nothing started yet
InitTracker ==
    /\ ptRunning = FALSE
    /\ ptSession = 0
    /\ ptTicker = 0
    /\ currentPhase = -1
    /\ currentProgress = NoProgress
    /\ updateChan = <<>>
    /\ stopChan = {}
    /\ doneChan = {}
    /\ tickers = {}
    /\ loops = {}
    /\ callers = [c \in Callers |-> [pc |-> "idle", on |-> 0, err |-> NoError]]
    /\ producer = [pc |-> "idle", update |-> [phase |-> -1, progress |-> NoProgress]]
    /\ rActive = FALSE
    /\ reports = <<>>
    /\ submitted = <<>>
    /\ ncall = [start |-> 0, stop |-> 0, tick |-> 0, update |-> 0]

\* NewErrorHandler: no retry in progress
InitRetry ==
    retry = [pc |-> "idle", maxRetries |-> 0, baseDelay |-> 0, attempt |-> 0,
             errs |-> <<>>, slept |-> <<>>, result |-> "none"]

\* NewCommandRouter: no command is being routed
InitRouter ==
    router = [pc |-> "idle", log |-> <<>>, runtime |-> 0, escaped |-> 0]

\* no ExtractMedia call yet
InitMedia == media = [pc |-> "idle", variants |-> <<>>, i |-> 0, result |-> "none"]

\* no extractSong call yet
NoBoxes == [defect |-> "none", moofs |-> <<>>, mdats |-> 0]
InitFrag ==
    frag = [pc |-> "idle", boxes |-> NoBoxes, i |-> 0, samples |-> <<>>,
            alacParam |-> FALSE, result |-> "none", run |-> "none"]

\* nothing parsed yet
NotParsed == [err |-> "pending", storefront |-> "", urlType |-> "", id |-> ""]
InitUrl == url = [x |-> <<>>, trailing |-> <<>>, alone |-> NotParsed, extended |-> NotParsed]

\* nothing written yet
InitM4a ==
    m4a = [pc |-> "idle", sizes |-> <<>>, stsc |-> <<>>, stsz |-> <<>>, stco |-> <<>>,
           mdat |-> 0]

\* the parts that a specification leaves alone
\* no /queue command has been handled
InitObs ==
    obs = [pc |-> "idle", queueSize |-> 0, isProcessing |-> FALSE,
           currentlyProcessing |-> 0, queueInfo |-> <<>>]

\* NewSongDownloader: not active, no cancel handle; no goroutine has called Download
InitSd ==
    sd = [isActive |-> FALSE, cancelFunc |-> 0, cancelled |-> {},
          calls |-> [c \in Callers |-> [pc |-> "idle", ctx |-> 0, result |-> "none",
                                         callbacks |-> 0]],
          started |-> 0, rejected |-> 0, ncancels |-> 0, lastCancel |-> "none"]

InitStages == InitRouter /\ InitMedia /\ InitFrag /\ InitUrl /\ InitM4a /\ InitObs /\ InitSd

Init ==
    /\ InitQueue
    /\ InitDownload
    /\ file = "absent"
    /\ errorHandler
    /\ InitTracker
    /\ InitRetry
    /\ InitStages

\* requests the drainer has removed from the pending list so far
Taken == Len(uid) - Len(queue) - Cardinality(cleared)

\* ------------------------------------------------------------------ actions
\* AddRequest, whole body under sq.mu
AddRequest(senderID, chatID, messageID) ==
    LET uniqueID == GenerateUniqueID(senderID, chatID, messageID)
        r == Len(uid) + 1
        call(e, q) == [uniqueID |-> uniqueID, err |-> e, request |-> q,
                       size |-> Len(queue), taken |-> Taken]
    IN /\ ncalls' = ncalls + 1
       /\ IF queueIsFull
          THEN /\ last' = call(ErrQueueFull, 0)
               /\ UNCHANGED <<queue, uid, status, runs, threads>>
          ELSE IF findRequestByID(uniqueID) # 0
          THEN /\ last' = call(ErrExists(uniqueID), 0)
               /\ UNCHANGED <<queue, uid, status, runs, threads>>
          ELSE /\ uid' = Append(uid, uniqueID)
               /\ status' = Append(status, StatusQueued)
               /\ runs' = Append(runs, 0)
               /\ queue' = Append(queue, r)
               /\ threads' = Spawn(threads, Thread("start", 0))
               /\ last' = call(NoError, r)
       /\ UNCHANGED <<processing, isProcessing, cleared>>

\* processQueue lines 176-182 without the isProcessing test
processQueueEnter_NoCheck(t) ==
    /\ t.pc = "start"
    /\ isProcessing' = TRUE
    /\ threads' = Move(threads, t, Thread("loop", 0))
    /\ UNCHANGED <<queue, processing, uid, status, runs, cleared, ncalls, last>>

\* processQueue lines 176-182 without line 181 (the flag is tested, never set)
processQueueEnter_NoSet(t) ==
    /\ t.pc = "start"
    /\ IF isProcessing
       THEN threads' = Retire(threads, t)
       ELSE threads' = Move(threads, t, Thread("loop", 0))
    /\ UNCHANGED <<isProcessing, queue, processing, uid, status, runs, cleared, ncalls, last>>

\* processQueue lines 176-182: the isProcessing test under processingMutex
processQueueEnter(t) ==
    /\ t.pc = "start"
    /\ IF isProcessing
       THEN /\ threads' = Retire(threads, t)
            /\ UNCHANGED isProcessing
       ELSE /\ isProcessing' = TRUE
            /\ threads' = Move(threads, t, Thread("loop", 0))
    /\ UNCHANGED <<queue, processing, uid, status, runs, cleared, ncalls, last>>

\* processQueue lines 192-202: take the head of the list, or leave the loop
processQueueTake(t) ==
    /\ t.pc = "loop"
    /\ IF Len(queue) = 0
       THEN /\ threads' = Move(threads, t, Thread("break", 0))
            /\ UNCHANGED <<queue, processing>>
       ELSE /\ queue' = Tail(queue)
            /\ processing' = nextRequest
            /\ threads' = Move(threads, t, Thread("taken", nextRequest))
    /\ UNCHANGED <<isProcessing, uid, status, runs, cleared, ncalls, last>>

\* processQueue lines 205-220 without line 205 (the status is not set)
processQueueRun_NoStatus(t) ==
    /\ t.pc = "taken"
    /\ runs' = [runs EXCEPT ![t.request] = @ + 1]
    /\ threads' = Move(threads, t, Thread("download", t.request))
    /\ UNCHANGED <<status, queue, processing, isProcessing, uid, cleared, ncalls, last>>

\* processQueue lines 205-220: set the status (outside sq.mu) and start the pipeline
processQueueRun(t) ==
    /\ t.pc = "taken"
    /\ status' = [status EXCEPT ![t.request] = StatusProcessing]
    /\ runs' = [runs EXCEPT ![t.request] = @ + 1]
    /\ threads' = Move(threads, t, Thread("download", t.request))
    /\ UNCHANGED <<queue, processing, isProcessing, uid, cleared, ncalls, last>>

\* processQueue lines 220-232, leaving the loop when the pipeline failed
processQueueFinish_StopOnError(t, err) ==
    /\ t.pc = "download"
    /\ status' = [status EXCEPT ![t.request] =
                     IF err # NoError THEN StatusFailed ELSE StatusCompleted]
    /\ processing' = 0
    /\ threads' = Move(threads, t, Thread(IF err # NoError THEN "break" ELSE "sleep", 0))
    /\ UNCHANGED <<queue, isProcessing, uid, runs, cleared, ncalls, last>>

\* processQueue lines 220-232, putting a failed request back on the list
processQueueFinish_Retry(t, err) ==
    /\ t.pc = "download"
    /\ status' = [status EXCEPT ![t.request] =
                     IF err # NoError THEN StatusFailed ELSE StatusCompleted]
    /\ queue' = IF err # NoError THEN Append(queue, t.request) ELSE queue
    /\ processing' = 0
    /\ threads' = Move(threads, t, Thread("sleep", 0))
    /\ UNCHANGED <<isProcessing, uid, runs, cleared, ncalls, last>>

\* processQueue lines 220-232: ProcessDownload returns, the result is recorded under sq.mu
processQueueFinish(t, err) ==
    /\ t.pc = "download"
    /\ status' = [status EXCEPT ![t.request] =
                     IF err # NoError THEN StatusFailed ELSE StatusCompleted]
    /\ processing' = 0
    /\ threads' = Move(threads, t, Thread("sleep", 0))
    /\ UNCHANGED <<queue, isProcessing, uid, runs, cleared, ncalls, last>>

\* processQueue line 235: time.Sleep(1 * time.Second) is over
processQueueSleep(t) ==
    /\ t.pc = "sleep"
    /\ threads' = Move(threads, t, Thread("loop", 0))
    /\ UNCHANGED <<queue, processing, isProcessing, uid, status, runs, cleared, ncalls, last>>

\* processQueue lines 184-188 and 238: the deferred reset of isProcessing, then return
processQueueExit(t) ==
    /\ t.pc = "break"
    /\ isProcessing' = FALSE
    /\ threads' = Retire(threads, t)
    /\ UNCHANGED <<queue, processing, uid, status, runs, cleared, ncalls, last>>

\* ClearQueue, whole body under sq.mu
ClearQueue ==
    /\ queue # <<>>
    /\ queue' = <<>>
    /\ cleared' = cleared \cup Range(queue)
    /\ UNCHANGED <<processing, isProcessing, uid, status, threads, runs, ncalls, last>>
    /\ UNCHANGED <<dvars, tvars, evars, svars>>

\* ---------------------------------------------------------- specifications
Failures == Cardinality({r \in DOMAIN status : status[r] = StatusFailed})

\* A caller submits a message id that was submitted before or the next new one
\* (ids are only compared for equality, so nothing is lost by taking new ids in order).
Submit ==
    /\ ncalls < MaxCalls
    /\ \E s \in SenderIDs, c \in ChatIDs, m \in MessageIDs :
          /\ m <= Cardinality(Range(uid)) + 1
          /\ AddRequest(s, c, m)
    /\ UNCHANGED <<dvars, tvars, evars, svars>>

\* A caller submits a message id never submitted before.
SubmitDistinct ==
    /\ ncalls < MaxBurst
    /\ \E s \in SenderIDs, c \in ChatIDs : AddRequest(s, c, ncalls + 1)
    /\ UNCHANGED <<dvars, tvars, evars, svars>>

Drain ==
    /\ \E t \in Running :
          \/ processQueueEnter(t)
          \/ processQueueTake(t)
          \/ processQueueRun(t)
          \/ \E err \in ProcessDownload :
                /\ (err # NoError => Failures < MaxFailures)
                /\ processQueueFinish(t, err)
          \/ processQueueSleep(t)
          \/ processQueueExit(t)
    /\ UNCHANGED <<dvars, tvars, evars, svars>>

Next == Submit \/ Drain \/ ClearQueue

Spec == Init /\ [][Next]_vars

\* submissions with pairwise distinct keys against the drain goroutines, no ClearQueue
NextDistinct == SubmitDistinct \/ Drain

SpecDistinct == Init /\ [][NextDistinct]_vars

\* the drain goroutines run whenever they can (the Go scheduler starves no goroutine)
FairSpecDistinct == SpecDistinct /\ WF_vars(Drain)

\* ------------------------------------------------------------------- claims
Terminal == {StatusCompleted, StatusFailed}
\* positions inside the for loop of processQueue
InLoop == {"loop", "taken", "download", "sleep"}
\* positions after the isProcessing test was passed
PastCheck == InLoop \cup {"break"}
\* requests a goroutine has taken and not finished
Held == {t.request : t \in {u \in Running : u.pc \in {"taken", "download"}}}
\* this step is a call of AddRequest
IsCall == ncalls' = ncalls + 1

\* C1: whenever a request is pending, a processQueue goroutine exists that will
\* look at the pending list: no admitted request stays pending while no drain
\* task is running.
C1_PendingHasDrainer ==
    queue # <<>> => threads # EmptyBag

\* C1 (liveness clause): every admitted request reaches completed or failed.
C1_EveryRequestFinishes ==
    \A r \in 1..MaxBurst :
        (Len(status) >= r) ~> (Len(status) >= r /\ status[r] \in Terminal)

\* C2: at most one goroutine is past the isProcessing test at any moment, and a
\* goroutine started while another is past the test goes away changing nothing.
C2_SingleDrainer ==
    [][ /\ (CountAt(PastCheck))' <= 1
        /\ (/\ CountAt({"start"})' < CountAt({"start"})
            /\ CountAt(PastCheck) >= 1)
           => /\ threads' = Retire(threads, Thread("start", 0))
              /\ UNCHANGED <<queue, processing, isProcessing, uid, status, runs>>
      ]_vars

\* C2 witness: two goroutines were started, one is running a pipeline and the
\* other is gone.
C2_Witness ==
    /\ Len(uid) >= 2
    /\ CountAt({"download"}) = 1
    /\ CountAt({"start"}) = 0
    /\ isProcessing

\* request b has been taken off the pending list by a goroutine
Started(b) == status[b] # StatusQueued \/ b \in Held

\* C3 as stated: if a was admitted before b, a is completed or failed before b
\* starts processing.
C3_AdmissionOrder ==
    \A a, b \in DOMAIN status :
        (a < b /\ Started(b)) => status[a] \in Terminal

\* C3 amended: the same for every request a that ClearQueue did not discard.
C3_AdmissionOrderOfKept ==
    \A a, b \in DOMAIN status :
        (a < b /\ a \notin cleared /\ Started(b)) => status[a] \in Terminal

\* C3 witness: an earlier request is finished, a later one is being processed,
\* and both were pending together with nothing discarded.
C3_Witness ==
    /\ cleared = {}
    /\ Len(status) >= 3
    /\ status[1] \in Terminal
    /\ status[2] = StatusProcessing
    /\ queue = <<3>>

\* C4 as stated: after 8 submissions with distinct keys exactly 7 were accepted
\* and the 8th was rejected with "queue is full".
C4_SevenOfEight ==
    ncalls = MaxQueueSize + 1 =>
        /\ Len(uid) = MaxQueueSize
        /\ last.err = ErrQueueFull

\* C4 amended: the first 7 are accepted; the 8th is rejected with "queue is
\* full" exactly when no request was taken off the list before it arrived, and
\* is accepted otherwise.
C4_SevenOfEightUnlessTaken ==
    ncalls = MaxQueueSize + 1 =>
        /\ last.taken = 0 => (Len(uid) = MaxQueueSize /\ last.err = ErrQueueFull)
        /\ last.taken > 0 => (Len(uid) = MaxQueueSize + 1 /\ last.err = NoError)

\* C4 witness: the 8th submission found 7 pending and was rejected.
C4_Witness ==
    /\ ncalls = MaxQueueSize + 1
    /\ last.taken = 0
    /\ last.err = "queue is full (max 7 requests)"
    /\ Len(queue) = MaxQueueSize

\* C5: the pending list never holds more than 7 requests, and a submission that
\* finds 7 pending returns "queue is full (max 7 requests)" and admits nothing.
C5_Capacity ==
    [][ /\ Len(queue') <= 7
        /\ (IsCall /\ Len(queue) = 7)
           => /\ last'.err = "queue is full (max 7 requests)"
              /\ last'.request = 0
              /\ UNCHANGED <<queue, processing, uid, status, threads>>
      ]_vars

\* C5 witness: a submission was rejected because 7 requests were pending.
C5_Witness ==
    /\ last.size = 7
    /\ last.err = ErrQueueFull
    /\ last.request = 0
    /\ Len(queue) = 7

\* request r was admitted and is neither finished nor discarded
Unfinished(r) == r \notin cleared /\ status[r] \in {StatusQueued, StatusProcessing}

\* C6 as stated: a submission whose key is the key of an unfinished request
\* (queued or being processed) is rejected with "already exists" and leaves the
\* pending list and the processing slot unchanged.
C6_DuplicateRejected ==
    [][ (IsCall /\ \E r \in DOMAIN uid : uid[r] = last'.uniqueID /\ Unfinished(r))
           => /\ last'.err = ErrExists(last'.uniqueID)
              /\ UNCHANGED <<queue, processing>>
      ]_vars

\* C7: at most one request has status processing and at most one pipeline run
\* is in progress.
C7_OneAtATime ==
    /\ Cardinality({r \in DOMAIN status : status[r] = StatusProcessing}) <= 1
    /\ CountAt({"taken", "download"}) <= 1
    /\ Cardinality(Held) <= 1

\* C7 witness: a pipeline run is in progress while other requests are pending
\* and another goroutine has been started.
C7_Witness ==
    /\ CountAt({"download"}) = 1
    /\ CountAt({"start"}) >= 1
    /\ Len(queue) >= 2

\* C8: a run that returns an error marks its request failed and leaves the
\* goroutine in the loop, and a goroutine leaves the loop only when it finds
\* the pending list empty; otherwise it takes the head of the list.
C8_FailureDoesNotStopDrainer ==
    [][ /\ \A r \in DOMAIN status :
              (status[r] = StatusProcessing /\ status'[r] # StatusProcessing)
                 => /\ CountAt({"sleep"})' = CountAt({"sleep"}) + 1
                    /\ CountAt(InLoop)' = CountAt(InLoop)
                    /\ processing' = 0
        /\ CountAt({"break"})' > CountAt({"break"}) => queue = <<>>
        /\ (CountAt({"loop"})' < CountAt({"loop"}) /\ queue # <<>>)
              => /\ processing' = Head(queue)
                 /\ queue' = Tail(queue)
      ]_vars

\* C8 witness: a request failed and the next one is being processed.
C8_Witness ==
    \E a, b \in DOMAIN status :
        /\ b = a + 1
        /\ status[a] = StatusFailed
        /\ status[b] = StatusProcessing
        /\ queue # <<>>

\* C9: a request is admitted as queued, and its status only changes from
\* queued to processing and from processing to completed or failed.
C9_StatusTransitions ==
    [][ /\ \A r \in DOMAIN status :
              status'[r] # status[r] =>
                 \/ status[r] = StatusQueued /\ status'[r] = StatusProcessing
                 \/ status[r] = StatusProcessing /\ status'[r] \in Terminal
        /\ \A r \in DOMAIN status' : r \notin DOMAIN status => status'[r] = StatusQueued
        /\ DOMAIN status \subseteq DOMAIN status'
      ]_vars

\* C9 witness: one request went through to completed and another to failed.
C9_Witness ==
    \E a, b \in DOMAIN status :
        status[a] = StatusCompleted /\ status[b] = StatusFailed

\* C10: no request gets more than one pipeline run, and a finished request is
\* neither pending nor held by a goroutine again.
C10_AtMostOneRun ==
    \A r \in DOMAIN status :
        /\ runs[r] <= 1
        /\ status[r] \in Terminal =>
              /\ runs[r] = 1
              /\ r \notin Range(queue)
              /\ r \notin Held
              /\ processing # r

\* C10 witness: a request failed, the goroutine went on and ended, and the
\* failed request was run once.
C10_Witness ==
    \E r \in DOMAIN status :
        /\ status[r] = StatusFailed
        /\ runs[r] = 1
        /\ threads = EmptyBag
        /\ queue = <<>>

\* ======================================================== the download pipeline
\* Phase values, by their String() names
PhaseValidating  == "validating"
PhaseDownloading == "downloading"
PhaseDecrypting  == "decrypting"
PhaseWriting     == "writing"
PhaseUploading   == "uploading"
PhaseComplete    == "complete"
PhaseError       == "error"

\* ErrorType values, by their String() names
ErrorInvalidURL        == "invalid_url"
ErrorNetworkFailure    == "network_failure"
ErrorDecryptionFailure == "decryption_failure"
ErrorFileSystemError   == "filesystem_error"
ErrorALACNotAvailable  == "alac_not_available"
ErrorCancelled         == "cancelled"
ErrorUnknown           == "unknown"

defaultId == "0"
prefetchKey == "skd://itunes.apple.com/P000000000/s1/e1"
\* math.MaxUint8, the value lastIndex starts with in decryptSong
MaxUint8 == 255

\* ------------------------------------------------------------------- bounds
\* samples in a track
MaxSamples == 2
\* /song commands in a behaviour
MaxRuns == 2

\* sample description indices a track may carry, and key list lengths a manifest may give
DescIndexes == {0, 1, MaxUint8}
KeyCounts == {1, 2, MaxUint8 + 1}
\* len(sample.data)
SampleSizes == {0, 1}
Sample == [descIndex : DescIndexes, size : SampleSizes]
SampleLists == UNION {[1..n -> Sample] : n \in 0..MaxSamples}

\* the causes a stage can fail with, by the text of the error
CauseNone      == "<nil>"
CauseCanceled  == "context canceled"
CauseDial      == "dial tcp 127.0.0.1:10020: connect: connection refused"
CauseEOF       == "unexpected EOF"
CausePipe      == "write: broken pipe"
CauseStatus    == "404 Not Found"
CauseMeta      == "invalid type"
CauseDenied    == "open downloads/song.m4a: permission denied"

\* ErrorHandler.IsNetworkError's keywords found in the lowercased text of a cause
KeywordsIn(cause) ==
    CASE cause = CauseDial -> {"tcp", "connection"}
      [] OTHER -> {}

\* ErrorHandler.IsNetworkError on a DownloadError, whose text is
\* "<type>: <message> (caused by: <cause>)"; no message of Download holds a keyword
IsNetworkError(err) ==
    \/ err.type = ErrorNetworkFailure
    \/ KeywordsIn(err.cause) # {}

\* the Phase constants in the order of their declaration (iota)
PhaseRank(p) ==
    CASE p = PhaseValidating  -> 0
      [] p = PhaseDownloading -> 1
      [] p = PhaseDecrypting  -> 2
      [] p = PhaseWriting     -> 3
      [] p = PhaseUploading   -> 4
      [] p = PhaseComplete    -> 5
      [] p = PhaseError       -> 6

\* one entry of the run's history
Ev(k, n) == [kind |-> k, name |-> n]

\* keys[i] as ExtractMedia builds the list: the prefetch key first, then the manifest's keys
Key(i) == IF i = 0 THEN prefetchKey ELSE "skd://itunes.apple.com/" \o ToString(i) \o "/c23"

\* what decryptSong writes: the header of a key, a sample, the two markers
Header(index) == [op |-> "header",
                  id |-> IF Key(index) = prefetchKey THEN defaultId ELSE "manifest.ID",
                  key |-> Key(index)]
SampleMsg(n) == [op |-> "sample", n |-> n]
GroupMarker == [op |-> "zeros", n |-> 4]
EndMarker == [op |-> "zeros", n |-> 5]

\* the variables no stage of Download assigns
fixed == <<before, errorHandler, nruns>>

\* updatePhase, lines 319-328: status.Phase is assigned by the caller of this operator,
\* OnPhaseChange is called when the phase changes
updatePhase(tr, oldPhase, newPhase) ==
    IF oldPhase # newPhase THEN Append(tr, Ev("OnPhaseChange", newPhase)) ELSE tr

\* handleError, lines 331-344, with Handle's OnError (reporter.ReportError edits the
\* chat's progress message into the error report), then Download returns the error
\* and its deferred function clears isActive
handleError(errorType, cause) ==
    /\ phase' = PhaseError
    /\ ret' = [type |-> errorType, cause |-> cause]
    /\ trace' = Append(trace, Ev("OnError", errorType))
    /\ chat' = chat + 1
    /\ isActive' = FALSE
    /\ dpc' = "returned"

\* Download goes on to the next stage, after updatePhase(newPhase)
Proceed(newPhase, stage) ==
    /\ phase' = newPhase
    /\ trace' = Append(updatePhase(trace, phase, newPhase), Ev("stage", stage))
    /\ dpc' = stage
    /\ UNCHANGED <<ret, chat, isActive>>

\* Download lines 176-181 and 286-291: updatePhase(PhaseComplete), OnComplete, the
\* result is returned and the deferred function clears isActive
Complete ==
    /\ phase' = PhaseComplete
    /\ trace' = Append(updatePhase(trace, phase, PhaseComplete), Ev("OnComplete", file'))
    /\ ret' = [type |-> NoError, cause |-> CauseNone]
    /\ isActive' = FALSE
    /\ dpc' = "returned"
    /\ UNCHANGED chat

\* Download lines 203-211: every sample's descIndex is inside the key list
validSamples_Unchecked(smp, n) == TRUE

validSamples(smp, n) == \A i \in DOMAIN smp : smp[i].descIndex < n

\* Download lines 75-110: a /song command reaches Download; the run is set up under
\* sd.mu and ExtractUrlMeta is called
Download ==
    /\ dpc \in {"idle", "handled"}
    /\ nruns < MaxRuns
    /\ nruns' = nruns + 1
    /\ before' = file
    /\ ctxDone' = FALSE
    /\ keysLen' = 0
    /\ samples' = <<>>
    /\ dec' = [pc |-> "idle", i |-> 0, lastIndex |-> 0, decrypted |-> 0,
               conn |-> "none", dials |-> 0, lookups |-> {}, plain |-> <<>>]
    /\ wire' = <<>>
    /\ cancelAt' = [stage |-> "", i |-> 0]
    /\ chat' = 0
    /\ IF isActive
       THEN /\ ret' = [type |-> ErrorUnknown, cause |-> CauseNone]
            /\ dpc' = "returned"
            /\ trace' = <<>>
            /\ UNCHANGED <<isActive, phase>>
       ELSE /\ isActive' = TRUE
            /\ phase' = PhaseValidating
            /\ ret' = [type |-> "", cause |-> ""]
            /\ trace' = <<Ev("stage", "ExtractUrlMeta")>>
            /\ dpc' = "ExtractUrlMeta"
    /\ UNCHANGED <<file, errorHandler>>

\* Download lines 110-121: ExtractUrlMeta returns, the context is looked at
DownloadExtractUrlMeta(ok) ==
    /\ dpc = "ExtractUrlMeta"
    /\ IF ~ok THEN handleError(ErrorInvalidURL, CauseMeta)
       ELSE IF ctxDone THEN handleError(ErrorCancelled, CauseCanceled)
       ELSE Proceed(phase, "GetToken")
    /\ UNCHANGED <<ctxDone, file, keysLen, samples, dec, wire, cancelAt, fixed>>

\* Download lines 121-127: GetToken returns
DownloadGetToken_GoesOn(ok) ==
    /\ dpc = "GetToken"
    /\ IF ~ok
       THEN /\ phase' = PhaseError
            /\ trace' = trace \o <<Ev("OnError", ErrorNetworkFailure), Ev("stage", "GetSongMeta")>>
            /\ chat' = chat + 1
            /\ dpc' = "GetSongMeta"
            /\ UNCHANGED <<ret, isActive>>
       ELSE Proceed(phase, "GetSongMeta")
    /\ UNCHANGED <<ctxDone, file, keysLen, samples, dec, wire, cancelAt, fixed>>

DownloadGetToken(ok) ==
    /\ dpc = "GetToken"
    /\ IF ~ok THEN handleError(ErrorNetworkFailure, CauseStatus)
       ELSE Proceed(phase, "GetSongMeta")
    /\ UNCHANGED <<ctxDone, file, keysLen, samples, dec, wire, cancelAt, fixed>>

\* Download lines 127-137: GetSongMeta returns; hls is whether the song has an
\* enhancedHls asset
DownloadGetSongMeta(ok, hls) ==
    /\ dpc = "GetSongMeta"
    /\ IF ~ok THEN handleError(ErrorNetworkFailure, CauseStatus)
       ELSE IF ~hls THEN handleError(ErrorALACNotAvailable, CauseNone)
       ELSE Proceed(phase, "GetEnhanceHls")
    /\ UNCHANGED <<ctxDone, file, keysLen, samples, dec, wire, cancelAt, fixed>>

\* Download lines 137-185: GetEnhanceHls returns; when os.Stat finds something at
\* filePath the run is complete at once
DownloadGetEnhanceHls_NoStat(ok) ==
    /\ dpc = "GetEnhanceHls"
    /\ UNCHANGED <<ctxDone, file, keysLen, samples, dec, wire, cancelAt, fixed>>
    /\ IF ~ok THEN handleError(ErrorNetworkFailure, CauseStatus)
       ELSE Proceed(phase, "ExtractMedia")

DownloadGetEnhanceHls(ok) ==
    /\ dpc = "GetEnhanceHls"
    /\ UNCHANGED <<ctxDone, file, keysLen, samples, dec, wire, cancelAt, fixed>>
    /\ IF ~ok THEN handleError(ErrorNetworkFailure, CauseStatus)
       ELSE IF file # "absent" THEN Complete
       ELSE Proceed(phase, "ExtractMedia")

\* Download lines 185-198: ExtractMedia returns n keys, the context is looked at,
\* updatePhase(PhaseDownloading), extractSong is called
DownloadExtractMedia_SkipsAhead(ok, n) ==
    /\ dpc = "ExtractMedia"
    /\ IF ~ok
       THEN handleError(ErrorNetworkFailure, CauseStatus) /\ UNCHANGED keysLen
       ELSE /\ keysLen' = n
            /\ IF ctxDone THEN handleError(ErrorCancelled, CauseCanceled)
               ELSE Proceed(PhaseDecrypting, "extractSong")
    /\ UNCHANGED <<ctxDone, file, samples, dec, wire, cancelAt, fixed>>

DownloadExtractMedia(ok, n) ==
    /\ dpc = "ExtractMedia"
    /\ IF ~ok
       THEN handleError(ErrorNetworkFailure, CauseStatus) /\ UNCHANGED keysLen
       ELSE /\ keysLen' = n
            /\ IF ctxDone THEN handleError(ErrorCancelled, CauseCanceled)
               ELSE Proceed(PhaseDownloading, "extractSong")
    /\ UNCHANGED <<ctxDone, file, samples, dec, wire, cancelAt, fixed>>

\* Download lines 198-224 with extractSong lines 606-642: extractSong returns the
\* samples smp, or fails; seen tells whether a cancellation was there already when
\* extractSong looked at the context (line 640).  Then the samples are checked, the
\* context is looked at, updatePhase(PhaseDecrypting), decryptSong is called
DownloadExtractSong(ok, seen, smp) ==
    /\ dpc = "extractSong"
    /\ IF ~ok
       THEN /\ handleError(ErrorNetworkFailure, CauseStatus)
            /\ UNCHANGED <<samples, dec>>
       ELSE IF ctxDone /\ seen
       THEN /\ handleError(ErrorNetworkFailure, CauseCanceled)
            /\ UNCHANGED <<samples, dec>>
       ELSE /\ samples' = smp
            /\ IF ~validSamples(smp, keysLen)
               THEN handleError(ErrorDecryptionFailure, CauseNone) /\ UNCHANGED dec
               ELSE IF ctxDone
               THEN handleError(ErrorCancelled, CauseCanceled) /\ UNCHANGED dec
               ELSE /\ Proceed(PhaseDecrypting, "decryptSong")
                    /\ dec' = [dec EXCEPT !.pc = "dial"]
    /\ UNCHANGED <<ctxDone, file, keysLen, wire, cancelAt, fixed>>

\* decryptSong lines 768-776: net.Dial; a failure is returned to Download (line 226)
decryptSongDial(ok) ==
    /\ dpc = "decryptSong"
    /\ dec.pc = "dial"
    /\ IF ok
       THEN /\ dec' = [dec EXCEPT !.pc = "loop", !.i = 1, !.lastIndex = MaxUint8,
                                  !.decrypted = 0, !.plain = <<>>, !.conn = "open",
                                  !.dials = @ + 1]
            /\ UNCHANGED <<dpc, isActive, phase, ret, trace, chat>>
       ELSE /\ dec' = [dec EXCEPT !.pc = "done"]
            /\ handleError(ErrorDecryptionFailure, CauseDial)
    /\ UNCHANGED <<ctxDone, file, keysLen, samples, wire, cancelAt, fixed>>

\* what one iteration of decryptSong's loop writes for sample i, lines 802-843
decryptSongWrites(i, lastIndex, decrypted) ==
    LET sp == samples[i]
        change == lastIndex # sp.descIndex
    IN  (IF change /\ decrypted # 0 THEN <<GroupMarker>> ELSE <<>>)
        \o (IF change THEN <<Header(sp.descIndex)>> ELSE <<>>)
        \o <<SampleMsg(i)>>

\* io.ReadFull(conn, de), lines 845-849, when the helper delivers got bytes for a
\* sample of size bytes and then nothing more: it succeeds when the buffer is filled
ReadFull_Short(size, got) == TRUE

ReadFull(size, got) == got = size

\* decryptSong lines 796-864, one iteration: the context is looked at, the header is
\* written when the index changes, the sample is written and its plaintext read.
\* f = 0: every write succeeds; f = k: the k-th write of the iteration fails; got is
\* the number of plaintext bytes the helper delivers.  An error closes the connection
\* (deferred) and is returned to Download (line 226).  keys[sp.descIndex] outside the
\* list is a run-time panic: the deferred functions run and no callback is made.
decryptSongSample(f, got) ==
    /\ dpc = "decryptSong"
    /\ dec.pc = "loop"
    /\ dec.i <= Len(samples)
    /\ LET sp == samples[dec.i]
           writes == decryptSongWrites(dec.i, dec.lastIndex, dec.decrypted)
           looked == IF dec.lastIndex # sp.descIndex THEN {sp.descIndex} ELSE {}
       IN  /\ f <= Len(writes)
           /\ got <= sp.size
           /\ IF ctxDone
              THEN /\ f = 0 /\ got = sp.size
                   /\ dec' = [dec EXCEPT !.pc = "done", !.conn = "closed"]
                   /\ handleError(ErrorDecryptionFailure, CauseCanceled)
                   /\ UNCHANGED wire
              ELSE IF \E d \in looked : d >= keysLen
              THEN /\ f = 0 /\ got = sp.size
                   /\ dec' = [dec EXCEPT !.pc = "done", !.conn = "closed",
                                         !.lookups = @ \cup looked]
                   /\ wire' = wire \o SubSeq(writes, 1, Len(writes) - 2)
                   /\ ret' = [type |-> "panic", cause |-> "index out of range"]
                   /\ isActive' = FALSE
                   /\ dpc' = "returned"
                   /\ UNCHANGED <<phase, trace, chat>>
              ELSE IF f = 0 /\ ReadFull(sp.size, got)
              THEN /\ dec' = [dec EXCEPT !.i = @ + 1, !.lastIndex = sp.descIndex,
                                         !.decrypted = @ + got,
                                         !.plain = Append(@, got),
                                         !.lookups = @ \cup looked]
                   /\ wire' = wire \o writes
                   /\ UNCHANGED <<dpc, isActive, phase, ret, trace, chat>>
              ELSE /\ f # 0 => got = sp.size
                   /\ dec' = [dec EXCEPT !.pc = "done", !.conn = "closed",
                                         !.lookups = @ \cup
                                             (IF f = 0 \/ f > Len(writes) - 2
                                              THEN looked ELSE {})]
                   /\ wire' = wire \o (IF f = 0 THEN writes ELSE SubSeq(writes, 1, f - 1))
                   /\ handleError(ErrorDecryptionFailure,
                                  IF f = 0 THEN CauseEOF ELSE CausePipe)
    /\ UNCHANGED <<ctxDone, file, keysLen, samples, cancelAt, fixed>>

\* decryptSong lines 866-868 and Download lines 224-238: the five zero bytes are
\* written, the connection is closed (deferred), decryptSong returns; the context is
\* looked at, updatePhase(PhaseWriting), MkdirAll is called
decryptSongReturn_NoEndMarker ==
    /\ dpc = "decryptSong"
    /\ dec.pc = "loop"
    /\ dec.i > Len(samples)
    /\ wire' = wire
    /\ dec' = [dec EXCEPT !.pc = "done", !.conn = "closed"]
    /\ IF ctxDone THEN handleError(ErrorCancelled, CauseCanceled)
       ELSE Proceed(PhaseWriting, "MkdirAll")
    /\ UNCHANGED <<ctxDone, file, keysLen, samples, cancelAt, fixed>>

decryptSongReturn ==
    /\ dpc = "decryptSong"
    /\ dec.pc = "loop"
    /\ dec.i > Len(samples)
    /\ wire' = Append(wire, EndMarker)
    /\ dec' = [dec EXCEPT !.pc = "done", !.conn = "closed"]
    /\ IF ctxDone THEN handleError(ErrorCancelled, CauseCanceled)
       ELSE Proceed(PhaseWriting, "MkdirAll")
    /\ UNCHANGED <<ctxDone, file, keysLen, samples, cancelAt, fixed>>

\* Download lines 238-250: MkdirAll returns, os.Create(filePath) truncates or creates
\* the file at the final path, WriteM4a is called
DownloadMkdirAll(ok, created) ==
    /\ dpc = "MkdirAll"
    /\ IF ~ok \/ ~created
       THEN handleError(ErrorFileSystemError, CauseDenied) /\ UNCHANGED file
       ELSE /\ file' = "partial"
            /\ Proceed(phase, "WriteM4a")
    /\ UNCHANGED <<ctxDone, keysLen, samples, dec, wire, cancelAt, fixed>>

\* Download lines 250-258: WriteM4a returns; on an error the file stays as it is
DownloadWriteM4a(ok) ==
    /\ dpc = "WriteM4a"
    /\ IF ~ok
       THEN handleError(ErrorFileSystemError, CauseDenied) /\ UNCHANGED file
       ELSE /\ file' = "complete"
            /\ Proceed(phase, "addArtwork")
    /\ UNCHANGED <<ctxDone, keysLen, samples, dec, wire, cancelAt, fixed>>

\* Download lines 256-291: addArtwork returns (its error is only logged), os.Stat,
\* updatePhase(PhaseComplete), OnComplete
DownloadAddArtwork(ok, stat) ==
    /\ dpc = "addArtwork"
    /\ UNCHANGED <<ctxDone, file, keysLen, samples, dec, wire, cancelAt, fixed>>
    /\ IF ~stat THEN handleError(ErrorFileSystemError, CauseDenied)
       ELSE Complete

\* Cancel lines 295-308, under sd.mu: cancelFunc() cancels downloadCtx.  A
\* cancellation of the caller's context cancels downloadCtx in the same way.
Cancel ==
    /\ isActive
    /\ ~ctxDone
    /\ ctxDone' = TRUE
    /\ cancelAt' = [stage |-> dpc, i |-> dec.i]
    /\ UNCHANGED <<dpc, isActive, phase, file, keysLen, samples, dec, wire, ret, trace,
                   chat, fixed>>

\* SongHandler.Handle lines 109-135: what Handle returns to the router after Download
\* returned err.  HandleNetworkError(err, true) always returns an error.
Handle(err) ==
    IF err.type # NoError /\ errorHandler /\ IsNetworkError(err) THEN err.type ELSE NoError

\* SongHandler.Handle lines 109-135 and CommandRouter.RouteCommand lines 71-78, after
\* Download returned: uploaded tells whether uploadFile succeeds.  An error returned
\* by Handle goes to HandleCommandError, which sends the chat an error message.
RouteCommand(uploaded) ==
    /\ dpc = "returned"
    /\ dpc' = "handled"
    /\ chat' = IF ret.type = NoError
               THEN (IF uploaded THEN chat ELSE chat + 1)
               ELSE IF Handle(ret) # NoError /\ errorHandler THEN chat + 1
               ELSE chat
    /\ UNCHANGED <<isActive, phase, ctxDone, file, keysLen, samples, dec, wire, ret,
                   trace, cancelAt, fixed>>

\* ---------------------------------------------------------- specifications
\* the steps of Download and of decryptSong, with every outcome of the I/O they do
Pipeline ==
    \/ \E ok \in BOOLEAN : DownloadExtractUrlMeta(ok)
    \/ \E ok \in BOOLEAN : DownloadGetToken(ok)
    \/ \E ok \in BOOLEAN, hls \in BOOLEAN : DownloadGetSongMeta(ok, hls)
    \/ \E ok \in BOOLEAN : DownloadGetEnhanceHls(ok)
    \/ \E ok \in BOOLEAN, n \in KeyCounts : DownloadExtractMedia(ok, n)
    \/ \E ok \in BOOLEAN, seen \in BOOLEAN, smp \in SampleLists :
          DownloadExtractSong(ok, seen, smp)
    \/ \E ok \in BOOLEAN : decryptSongDial(ok)
    \/ \E f \in 0..3, got \in SampleSizes : decryptSongSample(f, got)
    \/ decryptSongReturn
    \/ \E ok \in BOOLEAN, created \in BOOLEAN : DownloadMkdirAll(ok, created)
    \/ \E ok \in BOOLEAN : DownloadWriteM4a(ok)
    \/ \E ok \in BOOLEAN, stat \in BOOLEAN : DownloadAddArtwork(ok, stat)

\* /song commands one after the other, each may be cancelled while it runs
NextDownload ==
    \/ Download /\ UNCHANGED <<qvars, tvars, evars, svars>>
    \/ Pipeline /\ UNCHANGED <<qvars, tvars, evars, svars>>
    \/ Cancel /\ UNCHANGED <<qvars, tvars, evars, svars>>
    \/ (\E uploaded \in BOOLEAN : RouteCommand(uploaded)) /\ UNCHANGED <<qvars, tvars, evars, svars>>

\* an empty queue and a downloader that has not run, with or without an ErrorHandler
\* and with or without the song's file in downloads/
InitCommand ==
    /\ InitQueue
    /\ InitDownload
    /\ InitTracker
    /\ InitRetry
    /\ InitStages

SpecDownload == InitCommand /\ [][NextDownload]_vars

\* Download runs to its end: no stage of the pipeline blocks for ever
FairSpecDownload == SpecDownload /\ WF_vars(Pipeline /\ UNCHANGED <<qvars, tvars, evars, svars>>)

\* ------------------------------------------------------------------- claims
\* this step belongs to a run in progress (it is not the start of a new run)
InRun == nruns' = nruns
\* the phases a successful run goes through
RunPhases == {PhaseValidating, PhaseDownloading, PhaseDecrypting, PhaseWriting, PhaseComplete}

\* C11: within a run the phase only moves forward in the order validating,
\* downloading, decrypting, writing, complete (so each is entered at most once), and
\* each phase is entered in the step in which the stage before it returns without
\* error: downloading when ExtractMedia returned the keys, decrypting when
\* extractSong returned the samples, writing when decryptSong went through all
\* samples and closed its connection, complete when the file is written and
\* inspected or was found at the final path.
C11_PhaseOrder ==
    [][ (InRun /\ phase' # phase) =>
          /\ PhaseRank(phase') > PhaseRank(phase)
          /\ phase' \in RunPhases => ret'.type \in {"", NoError}
          /\ phase' = PhaseDownloading =>
                dpc = "ExtractMedia" /\ dpc' = "extractSong" /\ keysLen' \in KeyCounts
          /\ phase' = PhaseDecrypting =>
                dpc = "extractSong" /\ dpc' = "decryptSong" /\ phase = PhaseDownloading
          /\ phase' = PhaseWriting =>
                /\ dpc = "decryptSong" /\ dpc' = "MkdirAll" /\ phase = PhaseDecrypting
                /\ dec.i = Len(samples) + 1 /\ dec'.conn = "closed"
          /\ phase' = PhaseComplete =>
                \/ dpc = "addArtwork" /\ file = "complete" /\ phase = PhaseWriting
                \/ dpc = "GetEnhanceHls" /\ file # "absent" /\ phase = PhaseValidating
      ]_vars

\* C11 witness: a run went through every phase and is complete, with the four phase
\* changes reported in order.
C11_Witness ==
    /\ dpc = "returned"
    /\ phase = PhaseComplete
    /\ dec.i = 3
    /\ SelectSeq(trace, LAMBDA e : e.kind = "OnPhaseChange")
         = <<Ev("OnPhaseChange", PhaseDownloading), Ev("OnPhaseChange", PhaseDecrypting),
             Ev("OnPhaseChange", PhaseWriting), Ev("OnPhaseChange", PhaseComplete)>>

\* the calls of a callback made so far in this run
Calls(name) == SelectSeq(trace, LAMBDA e : e.kind = name)
\* Download has returned
Returned == dpc \in {"returned", "handled"}

C13_OneErrorReport ==
    (dpc = "handled" /\ ret.type \notin {"", NoError}) => chat = 1

\* the samples written to the decryption helper so far
SamplesSent == Len(SelectSeq(wire, LAMBDA w : w.op = "sample"))

\* C14: when the cancellation came while decryptSong was in its loop (connection
\* open, cancelAt.i the next sample to send), no further sample is sent and the run
\* fails with kind cancelled, through OnError and as Download's error.
C14_CancelDuringDecrypt ==
    (Returned /\ cancelAt.stage = "decryptSong" /\ cancelAt.i >= 1) =>
        /\ SamplesSent = cancelAt.i - 1
        /\ ret.type = ErrorCancelled
        /\ Calls("OnError") = <<Ev("OnError", ErrorCancelled)>>

\* C15: a run for which cancellation was signalled while it was active returns an
\* error of kind cancelled, and makes no OnComplete call: it returns no result.
C15_CancelledNeverCompletes ==
    (Returned /\ cancelAt.stage # "") =>
        /\ ret.type = ErrorCancelled
        /\ Calls("OnComplete") = <<>>

\* C16: what is at the final path differs from what was there when the run started
\* only once WriteM4a has returned without error, and a run that returned an error
\* has left the final path as it found it.
C16_FileOnlyAfterWriter ==
    /\ file # before =>
          /\ file = "complete"
          /\ \E k \in DOMAIN trace : trace[k] = Ev("stage", "addArtwork")
    /\ (Returned /\ ret.type # NoError) => file = before

\* some extracted sample has its descIndex outside the key list
BadSample == \E i \in DOMAIN samples : samples[i].descIndex >= keysLen

\* C17: when a sample's descIndex is outside the key list the run has failed with
\* decryption_failure without dialling the helper or writing anything to it, and
\* every index decryptSong has looked up in keys is inside the list.
C17_KeyIndexChecked ==
    /\ BadSample =>
          /\ Returned
          /\ ret.type = ErrorDecryptionFailure
          /\ Calls("OnError") = <<Ev("OnError", ErrorDecryptionFailure)>>
          /\ dec.dials = 0
          /\ dec.conn = "none"
          /\ wire = <<>>
    /\ \A d \in dec.lookups : d < keysLen

\* C17 witness: the second sample's index is outside a list of two keys; the run
\* was aborted before the dial.
C17_Witness ==
    /\ keysLen = 2
    /\ Len(samples) = 2
    /\ samples[1].descIndex = 1
    /\ samples[2].descIndex = MaxUint8
    /\ ret.type = ErrorDecryptionFailure
    /\ dec.dials = 0

\* sample i is the first of a maximal run of samples with one descriptor index
StartsRun(i) == i = 1 \/ samples[i].descIndex # samples[i - 1].descIndex
\* the position in wire of the sample written before position k, 0 if there is none
PrevSample(k) ==
    LET before_k == {j \in 1..(k - 1) : wire[j].op = "sample"}
    IN  IF before_k = {} THEN 0 ELSE CHOOSE j \in before_k : \A h \in before_k : h <= j

\* C18: in what decryptSong has written, a sample is preceded by the header of its
\* key exactly when it is the first sample of a maximal run of samples with one
\* descriptor index (the first sample of the track, or one whose index differs from
\* the sample before it), and a header is followed by nothing but its sample.
C18_HeaderPerRun ==
    \A k \in DOMAIN wire :
        /\ wire[k].op = "sample" =>
              (StartsRun(wire[k].n)
                 <=> (k > 1 /\ wire[k - 1] = Header(samples[wire[k].n].descIndex)))
        /\ wire[k].op = "header" =>
              (k = Len(wire) \/ wire[k + 1].op = "sample")

\* C19: in what decryptSong has written, the four zero bytes stand between a sample
\* and the sample before it exactly when the two have different descriptor indices,
\* whatever their lengths; nothing of the kind stands before the first sample.
C19_MarkerPerSwitch ==
    \A k \in DOMAIN wire :
        wire[k].op = "sample" =>
            ((wire[k].n > 1 /\ StartsRun(wire[k].n))
               <=> (\E j \in (PrevSample(k) + 1)..(k - 1) : wire[j] = GroupMarker))

\* C20: a run dials the helper at most once and decryptSong's loop runs on that one
\* open connection; the connection is open only while decryptSong is in its loop,
\* so it is closed on every way out (return, I/O error, cancellation); the five
\* zero bytes are written only after the last sample was processed, and then they
\* are the last thing written before the connection is closed.
C20_OneConnectionClosed ==
    /\ dec.dials <= 1
    /\ dec.pc = "loop" => (dec.dials = 1 /\ dec.conn = "open")
    /\ dec.conn = "open" => (dpc = "decryptSong" /\ dec.pc = "loop")
    /\ dec.dials = 1 <=> dec.conn \in {"open", "closed"}
    /\ (dec.conn = "closed" /\ dec.i = Len(samples) + 1) =>
          (wire # <<>> /\ wire[Len(wire)] = EndMarker)
    /\ \A k \in DOMAIN wire :
          wire[k] = EndMarker =>
              (k = Len(wire) /\ dec.i = Len(samples) + 1 /\ dec.conn = "closed")

\* C20 witness: both samples of a track were processed on one connection, the five
\* zero bytes were written last and the connection is closed.
C20_Witness ==
    /\ Len(samples) = 2
    /\ SamplesSent = 2
    /\ dec.dials = 1
    /\ dec.conn = "closed"
    /\ wire[Len(wire)] = EndMarker
    /\ phase = PhaseWriting

\* the ciphertext lengths of the samples, in order
CipherLengths == [i \in DOMAIN samples |-> samples[i].size]

LaterStages == {"ExtractMedia", "extractSong", "decryptSong", "MkdirAll", "WriteM4a",
                "addArtwork"}

\* C22: in a run that found something at the final path when it started, the step
\* in which GetEnhanceHls returns without error (the file name is resolved and
\* os.Stat finds the file) reports the phase complete, calls OnComplete with the
\* file as it is and returns the result; such a run never enters the downloading,
\* decrypting or writing phase, starts none of their stages and leaves the file as
\* it was.
C22_ExistingFileShortCircuit ==
    [][ (nruns > 0 /\ before # "absent") =>
          /\ file' = file
          /\ (InRun /\ file = before) => dpc' \notin LaterStages
          /\ (InRun /\ file = before) =>
                phase' \notin {PhaseDownloading, PhaseDecrypting, PhaseWriting}
          /\ (dpc = "GetEnhanceHls" /\ dpc' # dpc /\ ret'.type # ErrorNetworkFailure) =>
                /\ dpc' = "returned"
                /\ ret'.type = NoError
                /\ phase' = PhaseComplete
                /\ trace' = trace \o <<Ev("OnPhaseChange", PhaseComplete),
                                       Ev("OnComplete", before)>>
      ]_vars

\* C22 witness: a run that started with the file in place has returned the result
\* after one phase change, to complete.
C22_Witness ==
    /\ Returned
    /\ before = "complete"
    /\ file = "complete"
    /\ ret.type = NoError
    /\ Calls("OnPhaseChange") = <<Ev("OnPhaseChange", PhaseComplete)>>
    /\ Len(Calls("OnComplete")) = 1

\* ========================================================= the progress tracker
\* make(chan progressUpdate, 10)
UpdateChanCap == 10
\* the TotalBytes of the progress updates of the model
TotalBytes == 100

\* ------------------------------------------------------------------- bounds
\* UpdateProgress calls in a behaviour of SpecFlood
MaxFlood == 11
\* UpdateProgress calls in a behaviour of SpecTracker and of SpecSessions
MaxUpdates == 3
\* ticks taken by the update loops in a behaviour
MaxTicks == 2
\* Start calls, and Stop calls, in a behaviour
MaxStarts == 2

\* the sessions created so far
Sessions == DOMAIN updateChan
\* the calls made to the reporter
ReportPhaseChange(old, new, api) == [op |-> "ReportPhaseChange", old |-> old, new |-> new,
                                     progress |-> NoProgress, api |-> api]
ReportProgress(ph, pr, api) == [op |-> "UpdateProgress", old |-> ph, new |-> ph,
                                progress |-> pr, api |-> api]
ReportStop == [op |-> "Stop", old |-> -1, new |-> -1, progress |-> NoProgress, api |-> FALSE]
Update(ph, pr) == [phase |-> ph, progress |-> pr]

\* Start, lines 165-187, under pt.mu: refused when running, else a new session with
\* its channels, context and ticker, and its updateLoop goroutine
Start(c) ==
    /\ callers[c].pc = "idle"
    /\ ncall' = [ncall EXCEPT !.start = @ + 1]
    /\ IF ptRunning
       THEN /\ callers' = [callers EXCEPT ![c].err = ErrorUnknown]
            /\ UNCHANGED <<ptRunning, ptSession, ptTicker, updateChan, loops>>
       ELSE /\ callers' = [callers EXCEPT ![c].err = NoError]
            /\ updateChan' = Append(updateChan, <<>>)
            /\ ptSession' = Len(updateChan) + 1
            /\ ptTicker' = Len(updateChan) + 1
            /\ ptRunning' = TRUE
            /\ loops' = loops \cup {[own |-> Len(updateChan) + 1, bound |-> 0, ticker |-> 0,
                                     pc |-> "top", last |-> -1]}
    /\ UNCHANGED <<currentPhase, currentProgress, stopChan, doneChan, tickers, producer,
                   rActive, reports, submitted>>

\* Stop, lines 190-209, under pt.mu: nothing when not running, else stopChan is
\* closed, the context cancelled and isRunning cleared
Stop_NoCheck(c) ==
    /\ callers[c].pc = "idle"
    /\ ncall' = [ncall EXCEPT !.stop = @ + 1]
    /\ ptSession # 0
    /\ stopChan' = stopChan \cup {ptSession}
    /\ ptRunning' = FALSE
    /\ callers' = [callers EXCEPT ![c].pc = "read"]
    /\ UNCHANGED <<ptSession, ptTicker, currentPhase, currentProgress, updateChan, doneChan,
                   tickers, loops, producer, rActive, reports, submitted>>

Stop(c) ==
    /\ callers[c].pc = "idle"
    /\ ncall' = [ncall EXCEPT !.stop = @ + 1]
    /\ IF ~ptRunning
       THEN UNCHANGED <<stopChan, ptRunning, callers>>
       ELSE /\ stopChan' = stopChan \cup {ptSession}
            /\ ptRunning' = FALSE
            /\ callers' = [callers EXCEPT ![c].pc = "read"]
    /\ UNCHANGED <<ptSession, ptTicker, currentPhase, currentProgress, updateChan, doneChan,
                   tickers, loops, producer, rActive, reports, submitted>>

\* Stop, line 212: pt.doneChan is read, without the lock, to wait on it
StopRead(c) ==
    /\ callers[c].pc = "read"
    /\ callers' = [callers EXCEPT ![c].pc = "wait", ![c].on = ptSession]
    /\ UNCHANGED <<ptRunning, ptSession, ptTicker, currentPhase, currentProgress, updateChan,
                   stopChan, doneChan, tickers, loops, producer, rActive, reports,
                   submitted, ncall>>

\* Stop, lines 212-224: the channel waited on is closed; the ticker is stopped and
\* forgotten, reporter.Stop() clears the reporter
StopWait(c) ==
    /\ callers[c].pc = "wait"
    /\ callers[c].on \in doneChan
    /\ callers' = [callers EXCEPT ![c].pc = "idle", ![c].on = 0]
    /\ tickers' = IF ptTicker # 0 THEN tickers \cup {ptTicker} ELSE tickers
    /\ ptTicker' = 0
    /\ rActive' = FALSE
    /\ reports' = Append(reports, ReportStop)
    /\ UNCHANGED <<ptRunning, ptSession, currentPhase, currentProgress, updateChan,
                   stopChan, doneChan, loops, producer, submitted, ncall>>

\* TelegramProgressReporter.StartTracking, lines 38-67: the first message is sent
StartTracking ==
    /\ ~rActive
    /\ rActive' = TRUE
    /\ UNCHANGED <<ptRunning, ptSession, ptTicker, currentPhase, currentProgress, updateChan,
                   stopChan, doneChan, tickers, loops, callers, producer, reports,
                   submitted, ncall>>

\* UpdateProgress, lines 227-233: isRunning is looked at under the read lock; when
\* the tracker is not running the call returns
UpdateProgress_NoCheck(u) ==
    /\ producer.pc = "idle"
    /\ ncall' = [ncall EXCEPT !.update = @ + 1]
    /\ producer' = [pc |-> "send", update |-> u]
    /\ submitted' = Append(submitted, u)
    /\ UNCHANGED <<ptRunning, ptSession, ptTicker, currentPhase, currentProgress, updateChan,
                   stopChan, doneChan, tickers, loops, callers, rActive, reports>>

UpdateProgress(u) ==
    /\ producer.pc = "idle"
    /\ ncall' = [ncall EXCEPT !.update = @ + 1]
    /\ IF ~ptRunning
       THEN UNCHANGED <<producer, submitted>>
       ELSE /\ producer' = [pc |-> "send", update |-> u]
            /\ submitted' = Append(submitted, u)
    /\ UNCHANGED <<ptRunning, ptSession, ptTicker, currentPhase, currentProgress, updateChan,
                   stopChan, doneChan, tickers, loops, callers, rActive, reports>>

\* the select of lines 236-240 on a channel holding buf: the update is buffered when
\* there is room, else it is the one dropped
send(buf, u) ==
    IF Len(buf) < UpdateChanCap THEN Append(buf, u) ELSE buf

\* UpdateProgress, lines 235-240: the non-blocking send on pt.updateChan, read
\* without the lock
UpdateProgressSend ==
    /\ producer.pc = "send"
    /\ updateChan' = [updateChan EXCEPT ![ptSession] = send(@, producer.update)]
    /\ producer' = [producer EXCEPT !.pc = "idle"]
    /\ UNCHANGED <<ptRunning, ptSession, ptTicker, currentPhase, currentProgress, stopChan,
                   doneChan, tickers, loops, callers, rActive, reports, submitted, ncall>>

\* where the other loops are
Others(l) == loops \ {l}

\* updateLoop, line 264: the operands of the select are read from pt's fields,
\* without the lock; pt.ticker.C on a nil ticker is a run-time panic
updateLoopTop(l) ==
    /\ l.pc = "top"
    /\ loops' = Others(l) \cup
                  {[l EXCEPT !.bound = ptSession, !.ticker = ptTicker,
                             !.pc = IF ptTicker = 0 THEN "panic" ELSE "select"]}
    /\ UNCHANGED <<ptRunning, ptSession, ptTicker, currentPhase, currentProgress, updateChan,
                   stopChan, doneChan, tickers, callers, producer, rActive, reports,
                   submitted, ncall>>

\* updateLoop, lines 265-269 and 259: the context is done or stopChan is closed; the
\* loop returns and its deferred function closes the doneChan of its session
updateLoopStop(l) ==
    /\ l.pc = "select"
    /\ l.bound \in stopChan
    /\ loops' = Others(l)
    /\ doneChan' = doneChan \cup {l.own}
    /\ UNCHANGED <<ptRunning, ptSession, ptTicker, currentPhase, currentProgress, updateChan,
                   stopChan, tickers, callers, producer, rActive, reports, submitted, ncall>>

\* updateLoop, lines 271-284: an update is received; it becomes the current state and
\* a change of phase is reported at once
updateLoopReceive(l) ==
    /\ l.pc = "select"
    /\ updateChan[l.bound] # <<>>
    /\ LET update == Head(updateChan[l.bound])
       IN  /\ updateChan' = [updateChan EXCEPT ![l.bound] = Tail(@)]
           /\ currentPhase' = update.phase
           /\ currentProgress' = update.progress
           /\ reports' = IF currentPhase # update.phase
                         THEN Append(reports,
                                     ReportPhaseChange(currentPhase, update.phase, rActive))
                         ELSE reports
    /\ loops' = Others(l) \cup {[l EXCEPT !.pc = "top"]}
    /\ UNCHANGED <<ptRunning, ptSession, ptTicker, stopChan, doneChan, tickers, callers,
                   producer, rActive, submitted, ncall>>

\* updateLoop, lines 286-301: a tick; the current state is sent to the reporter when
\* a phase was set and it is new or there is progress to show
updateLoopTick_Stale(l) ==
    /\ l.pc = "select"
    /\ l.ticker \notin tickers
    /\ ncall' = [ncall EXCEPT !.tick = @ + 1]
    /\ reports' = Append(reports, ReportProgress(l.last, NoProgress, rActive))
    /\ loops' = Others(l) \cup {[l EXCEPT !.pc = "top"]}
    /\ UNCHANGED <<ptRunning, ptSession, ptTicker, currentPhase, currentProgress, updateChan,
                   stopChan, doneChan, tickers, callers, producer, rActive, submitted>>

updateLoopTick(l) ==
    /\ l.pc = "select"
    /\ l.ticker \notin tickers
    /\ ncall' = [ncall EXCEPT !.tick = @ + 1]
    /\ IF /\ currentPhase >= 0
          /\ \/ currentPhase # l.last
             \/ (currentProgress.total > 0 /\ currentProgress.bytes >= 0)
       THEN /\ reports' = Append(reports,
                                 ReportProgress(currentPhase, currentProgress, rActive))
            /\ loops' = Others(l) \cup {[l EXCEPT !.pc = "top", !.last = currentPhase]}
       ELSE /\ loops' = Others(l) \cup {[l EXCEPT !.pc = "top"]}
            /\ UNCHANGED reports
    /\ UNCHANGED <<ptRunning, ptSession, ptTicker, currentPhase, currentProgress, updateChan,
                   stopChan, doneChan, tickers, callers, producer, rActive, submitted>>

\* ---------------------------------------------------------- specifications
\* the phase of the last update handed to a running tracker, -1 if none
LastPhase == IF submitted = <<>> THEN -1 ELSE submitted[Len(submitted)].phase

\* what the pipeline's callbacks hand to the tracker next: OnPhaseChange gives the
\* next phase with Progress{}, OnProgress gives the phase it is in with the bytes
\* processed so far (here: a number that grows with every call)
NextUpdates ==
    {Update(LastPhase + 1, NoProgress)}
        \cup (IF LastPhase >= 0
              THEN {Update(LastPhase, [bytes |-> ncall.update + 1, total |-> TotalBytes])}
              ELSE {})

\* the pipeline's callbacks call UpdateProgress, at most n times
Feed(n) ==
    /\ ncall.update < n
    /\ LastPhase < PhaseRank(PhaseComplete)
    /\ \E u \in NextUpdates : UpdateProgress(u)

\* the steps of the update loops
Loop ==
    \E l \in loops :
        \/ updateLoopTop(l)
        \/ updateLoopStop(l)
        \/ updateLoopReceive(l)
        \/ ncall.tick < MaxTicks /\ updateLoopTick(l)

\* one goroutine starts the tracker and stops it, once, another feeds it
NextTracker ==
    \/ ncall.start = 0 /\ Start("a") /\ UNCHANGED <<qvars, dvars, evars, svars>>
    \/ ncall.stop = 0 /\ Stop("a") /\ UNCHANGED <<qvars, dvars, evars, svars>>
    \/ StopRead("a") /\ UNCHANGED <<qvars, dvars, evars, svars>>
    \/ StopWait("a") /\ UNCHANGED <<qvars, dvars, evars, svars>>
    \/ StartTracking /\ UNCHANGED <<qvars, dvars, evars, svars>>
    \/ Feed(MaxUpdates) /\ UNCHANGED <<qvars, dvars, evars, svars>>
    \/ UpdateProgressSend /\ UNCHANGED <<qvars, dvars, evars, svars>>
    \/ Loop /\ UNCHANGED <<qvars, dvars, evars, svars>>

InitTracking ==
    /\ InitQueue
    /\ InitDownload
    /\ file = "absent"
    /\ errorHandler
    /\ InitTracker
    /\ InitRetry
    /\ InitStages

SpecTracker == InitTracking /\ [][NextTracker]_vars

\* a started tracker is fed faster than its loop takes the updates; no tick falls
\* into the burst and nobody stops the tracker
NextFlood ==
    \/ ncall.start = 0 /\ Start("a") /\ UNCHANGED <<qvars, dvars, evars, svars>>
    \/ Feed(MaxFlood) /\ UNCHANGED <<qvars, dvars, evars, svars>>
    \/ UpdateProgressSend /\ UNCHANGED <<qvars, dvars, evars, svars>>
    \/ (\E l \in loops : updateLoopTop(l) \/ updateLoopReceive(l))
          /\ UNCHANGED <<qvars, dvars, evars, svars>>

SpecFlood == InitTracking /\ [][NextFlood]_vars

\* ------------------------------------------------------------------- claims
\* the phase changes reported so far, as pairs
PhaseReports ==
    LET r == SelectSeq(reports, LAMBDA e : e.op = "ReportPhaseChange")
    IN  [k \in DOMAIN r |-> <<r[k].old, r[k].new>>]
\* the phase changes handed to the tracker so far: the phases come one after the other
PhaseChanges == [k \in 1..(LastPhase + 1) |-> <<k - 2, k - 1>>]
\* nothing handed to the running tracker is still on its way to the loop
Quiet ==
    /\ ptRunning
    /\ producer.pc = "idle"
    /\ updateChan[ptSession] = <<>>

\* C23: the phase changes reported to the reporter are, in order, the phase changes
\* handed to the running tracker, none skipped; once the loop has taken everything
\* that was handed in, every one of them has been reported, tick or no tick.
C23_PhaseChangesForwarded ==
    /\ Len(PhaseReports) <= Len(PhaseChanges)
    /\ \A k \in DOMAIN PhaseReports : PhaseReports[k] = PhaseChanges[k]
    /\ Quiet => PhaseReports = PhaseChanges

\* C25: a send on a channel that holds 10 updates buffers the new update and drops
\* the oldest one.
C25_OverflowDropsOldest ==
    [][ (/\ producer.pc = "send"
         /\ producer'.pc = "idle"
         /\ Len(updateChan[ptSession]) = UpdateChanCap) =>
            updateChan'[ptSession] = Append(Tail(updateChan[ptSession]), producer.update)
      ]_vars

\* the last progress handed to the tracker for phase p
LatestIn(p) ==
    LET of_p == SelectSeq(submitted, LAMBDA u : u.phase = p)
    IN  of_p[Len(of_p)].progress

\* C24: before the change from a phase to the next one is reported, the reporter
\* has been given the latest (phase, progress) pair handed in during that phase
\* (a phase-change report counts as delivering its phase with empty progress).
C24_LatestBeforePhaseChange ==
    \A k \in DOMAIN reports :
        (reports[k].op = "ReportPhaseChange" /\ reports[k].old >= 0) =>
            \E j \in 1..(k - 1) :
                /\ reports[j].op \in {"UpdateProgress", "ReportPhaseChange"}
                /\ reports[j].new = reports[k].old
                /\ reports[j].progress = LatestIn(reports[k].old)

\* the updates the update loop has received: those handed in, less the one still
\* being sent and those waiting in the channel (no update is dropped while the
\* channel has room)
Received ==
    IF ptSession = 0
    THEN <<>>
    ELSE SubSeq(submitted, 1,
                Len(submitted) - Len(updateChan[ptSession])
                    - (IF producer.pc = "send" THEN 1 ELSE 0))

\* the number of progress renders handed to the reporter
NumProgress == Len(SelectSeq(reports, LAMBDA r : r.op = "UpdateProgress"))

\* C26: the reporter gets at most one UpdateProgress per tick of the timer, and the
\* one it gets carries the latest (phase, progress) the loop has received.
C26_OnePerTick ==
    [][ /\ NumProgress' <= ncall'.tick
        /\ NumProgress' # NumProgress =>
              /\ ncall'.tick = ncall.tick + 1
              /\ Received # <<>>
              /\ reports' = Append(reports,
                                   ReportProgress(Received[Len(Received)].phase,
                                                  Received[Len(Received)].progress,
                                                  rActive)) ]_vars

\* two progress updates arrived before the first tick, which rendered the later one
C26_Witness ==
    /\ ncall.tick = 1
    /\ Len(Received) = 3
    /\ Received[2].phase = Received[3].phase
    /\ Received[2].progress # Received[3].progress
    /\ NumProgress = 1
    /\ reports[Len(reports)] = ReportProgress(Received[3].phase, Received[3].progress, TRUE)

\* a step in which UpdateProgress is called
IsUpdateCall == ncall'.update # ncall.update

\* a step in which an update loop takes an update from a channel
IsReceive == \E s \in DOMAIN updateChan : Len(updateChan'[s]) < Len(updateChan[s])

\* a step in which the timer of an update loop ticks
IsTick == ncall'.tick # ncall.tick

\* the tracker's current phase and progress stay as they were
TrackerKept == currentPhase' = currentPhase /\ currentProgress' = currentProgress

\* no chat API call is made in the step
NoApiCall ==
    \A k \in DOMAIN reports' : k > Len(reports) => ~reports'[k].api

\* C27: an update that comes while the tracker is not running, or that is handled
\* while the reporter is not active, leaves the tracker's current phase and
\* progress as they were and makes no chat API call.
C27_UpdateIgnored ==
    [][ /\ (IsUpdateCall /\ ~ptRunning) => (TrackerKept /\ NoApiCall)
        /\ (IsReceive /\ ~rActive) => (TrackerKept /\ NoApiCall) ]_vars

\* C27, amended: an update that comes while the tracker is not running changes
\* nothing of the tracker and reaches neither the channel nor the reporter; an update
\* or a tick handled while the reporter is not active makes no chat API call and
\* leaves the reporter inactive (the tracker's current phase and progress do follow
\* the update).
C27_UpdateIgnored_Amended ==
    [][ /\ (IsUpdateCall /\ ~ptRunning) =>
              UNCHANGED <<ptRunning, ptSession, ptTicker, currentPhase, currentProgress,
                          updateChan, stopChan, doneChan, tickers, loops, producer,
                          rActive, reports, submitted>>
        /\ ((IsReceive \/ IsTick) /\ ~rActive) => (NoApiCall /\ ~rActive') ]_vars

\* an update came before the tracker was started and was ignored, and a later one
\* was reported to a reporter that was not active
C27_Witness ==
    /\ ncall.update > Len(submitted)
    /\ currentPhase >= 0
    /\ \E k \in DOMAIN reports : reports[k].op = "ReportPhaseChange" /\ ~reports[k].api

\* two goroutines start and stop the same tracker, in any interleaving
NextSessions ==
    \/ (\E c \in Callers : ncall.start < MaxStarts /\ Start(c))
          /\ UNCHANGED <<qvars, dvars, evars, svars>>
    \/ (\E c \in Callers : ncall.stop < MaxStarts + 1 /\ Stop(c))
          /\ UNCHANGED <<qvars, dvars, evars, svars>>
    \/ (\E c \in Callers : StopRead(c)) /\ UNCHANGED <<qvars, dvars, evars, svars>>
    \/ (\E c \in Callers : StopWait(c)) /\ UNCHANGED <<qvars, dvars, evars, svars>>
    \/ (\E l \in loops : updateLoopTop(l) \/ updateLoopStop(l))
          /\ UNCHANGED <<qvars, dvars, evars, svars>>

SpecSessions == InitTracking /\ [][NextSessions]_vars

\* C28: a tracker has one update loop at most at any time.
C28_OneUpdateLoop == Cardinality(loops) <= 1

\* the calls of the reporter's Stop()
NumStops == Len(SelectSeq(reports, LAMBDA r : r.op = "Stop"))

\* the callers that are inside Stop, past the lock
Stopping == {c \in Callers : callers[c].pc \in {"read", "wait"}}

\* C29: the reporter's Stop() has been called once for every session that was
\* started and stopped, the Stop calls still on their way left aside, and a Stop
\* call on a tracker that is not running changes nothing.
C29_OneReporterStopPerSession ==
    [][ /\ NumStops' + Cardinality(Stopping') = Cardinality(stopChan')
        /\ (ncall'.stop # ncall.stop /\ ~ptRunning) =>
              UNCHANGED <<ptRunning, ptSession, ptTicker, currentPhase, currentProgress,
                          updateChan, stopChan, doneChan, tickers, loops, callers,
                          producer, rActive, reports, submitted>> ]_vars

\* two sessions were started and stopped and a further Stop found nothing running
C29_Witness ==
    /\ ncall.stop > Cardinality(stopChan)
    /\ Cardinality(stopChan) = 2
    /\ Stopping = {}
    /\ NumStops = 2

\* ------------------------------------------------ ErrorHandler.retryWithBackoff
\* the cap of the delay, in seconds (line 236)
MaxDelay == 30
\* the largest maxRetries a caller passes
MaxRetries == 3
\* the base delays a caller passes, in seconds
BaseDelays == {1, 10}

\* the phrases isRetryableError looks for in the lower-cased message (lines 275-283)
retryableErrors ==
    {"connection refused", "connection reset", "timeout", "temporary failure",
     "network is unreachable", "no route to host", "connection timed out"}

\* an error value: the phrases its lower-cased message contains and what it says as
\* a net.Error ("none" when it is not one)
Err(phrases, net) == [phrases |-> phrases, net |-> net]
NilErr == Err({}, "nil")

\* what the operation may return
Outcomes ==
    {NilErr,
     Err({"connection refused"}, "none"),
     Err({"timeout"}, "timeout"),
     Err({}, "temporary"),
     Err({}, "other"),
     Err({"invalid url"}, "none")}

\* isRetryableError, lines 267-307: nil is not retryable; a message with one of the
\* phrases is; a net.Error is when it is temporary or a timeout
isRetryableError(err) ==
    IF err = NilErr
    THEN FALSE
    ELSE IF err.phrases \cap retryableErrors # {}
    THEN TRUE
    ELSE err.net \in {"temporary", "timeout"}

RECURSIVE Pow2(_)
Pow2(n) == IF n = 0 THEN 1 ELSE 2 * Pow2(n - 1)

\* lines 233-238: baseDelay * 2^(attempt-1), capped
backoff(baseDelay, attempt) ==
    LET delay == baseDelay * Pow2(attempt - 1)
    IN  IF delay > MaxDelay THEN MaxDelay ELSE delay

\* retryWithBackoff is called
retryWithBackoff(maxRetries, baseDelay) ==
    /\ retry.pc = "idle"
    /\ retry' = [retry EXCEPT !.pc = "loop", !.maxRetries = maxRetries,
                              !.baseDelay = baseDelay, !.attempt = 0]

\* lines 230-260, one iteration of the loop: the sleep before a retry, the call of
\* the operation, which returns err, and what follows from err
retryAttempt_OneMore(err) ==
    /\ retry.pc = "loop"
    /\ retry.attempt <= retry.maxRetries + 1
    /\ LET slept == IF retry.attempt > 0
                    THEN Append(retry.slept, backoff(retry.baseDelay, retry.attempt))
                    ELSE retry.slept
           errs == Append(retry.errs, err)
       IN  IF err = NilErr
           THEN retry' = [retry EXCEPT !.slept = slept, !.errs = errs,
                                       !.pc = "done", !.result = "nil"]
           ELSE IF ~isRetryableError(err)
           THEN retry' = [retry EXCEPT !.slept = slept, !.errs = errs,
                                       !.pc = "done", !.result = "error"]
           ELSE retry' = [retry EXCEPT !.slept = slept, !.errs = errs,
                                       !.attempt = @ + 1]

retryAttempt(err) ==
    /\ retry.pc = "loop"
    /\ retry.attempt <= retry.maxRetries
    /\ LET slept == IF retry.attempt > 0
                    THEN Append(retry.slept, backoff(retry.baseDelay, retry.attempt))
                    ELSE retry.slept
           errs == Append(retry.errs, err)
       IN  IF err = NilErr
           THEN retry' = [retry EXCEPT !.slept = slept, !.errs = errs,
                                       !.pc = "done", !.result = "nil"]
           ELSE IF ~isRetryableError(err)
           THEN retry' = [retry EXCEPT !.slept = slept, !.errs = errs,
                                       !.pc = "done", !.result = "error"]
           ELSE retry' = [retry EXCEPT !.slept = slept, !.errs = errs,
                                       !.attempt = @ + 1]

\* lines 230 and 263: the attempts are used up
retryExhausted ==
    /\ retry.pc = "loop"
    /\ retry.attempt > retry.maxRetries
    /\ retry' = [retry EXCEPT !.pc = "done", !.result = "error"]

NextRetry ==
    \/ (\E m \in 0..MaxRetries, d \in BaseDelays : retryWithBackoff(m, d))
          /\ UNCHANGED <<qvars, dvars, tvars, svars>>
    \/ (\E err \in Outcomes : retryAttempt(err)) /\ UNCHANGED <<qvars, dvars, tvars, svars>>
    \/ retryExhausted /\ UNCHANGED <<qvars, dvars, tvars, svars>>

InitRetrying ==
    /\ InitQueue
    /\ InitDownload
    /\ file = "absent"
    /\ errorHandler
    /\ InitTracker
    /\ InitRetry
    /\ InitStages

SpecRetry == InitRetrying /\ [][NextRetry]_vars

\* C30: the operation is called maxRetries + 1 times at most; every call but the last
\* failed with a retryable error; the call ends after a success, after an error that
\* is not retryable or after maxRetries + 1 calls, and it returns nil exactly when a
\* call of the operation succeeded.
C30_RetryBounded ==
    /\ Len(retry.errs) <= retry.maxRetries + 1
    /\ \A k \in 1..(Len(retry.errs) - 1) :
          retry.errs[k] # NilErr /\ isRetryableError(retry.errs[k])
    /\ retry.pc = "done" =>
          /\ retry.errs # <<>>
          /\ retry.result = "nil" <=> (\E k \in DOMAIN retry.errs : retry.errs[k] = NilErr)
          /\ \/ retry.errs[Len(retry.errs)] = NilErr
             \/ ~isRetryableError(retry.errs[Len(retry.errs)])
             \/ Len(retry.errs) = retry.maxRetries + 1

\* a call that succeeded on its second retry
C30_Witness ==
    /\ retry.pc = "done"
    /\ retry.result = "nil"
    /\ Len(retry.errs) = 3
    /\ Len(retry.slept) = 2

\* ------------------------------------------------ CommandRouter.RouteCommand
\* the commands routed in a run of the model
MaxCommands == 4

\* what a handler's Handle does: it returns nil, returns an error or panics
HandlerOutcomes == {"ok", "error", "panic"}

\* the built-in recover(): it returns the value of the panic when the function
\* that calls it is the deferred function itself (frames = 0), and nil when it is
\* called by a function that the deferred function calls (frames > 0)
recover(frames, panicking) == panicking /\ frames = 0

\* ErrorHandler.RecoverFromPanic, lines 339-350, called frames calls below the
\* deferred function: TRUE when the panic was recovered, which is when it is
\* handed to HandleRuntimeError
RecoverFromPanic(frames, panicking) == recover(frames, panicking)

\* RouteCommand, lines 41-78: the handler found for the command is called.  A nil
\* or an error makes RouteCommand return; a panic starts the unwinding.
RouteCommandHandle(outcome) ==
    /\ router.pc = "idle"
    /\ router' = [router EXCEPT !.log = Append(@, outcome),
                                !.pc = IF outcome = "panic" THEN "panicking" ELSE "idle"]

\* RouteCommand, lines 65-69, while a panic unwinds: the deferred closure calls
\* RecoverFromPanic when there is an ErrorHandler, so recover() is called one call
\* below the deferred function.  A recovered panic is recorded by HandleRuntimeError
\* and RouteCommand returns; a panic that is not recovered leaves RouteCommand.
RouteCommandDeferred ==
    /\ router.pc = "panicking"
    /\ IF errorHandler /\ RecoverFromPanic(1, TRUE)
       THEN router' = [router EXCEPT !.pc = "idle", !.runtime = @ + 1]
       ELSE router' = [router EXCEPT !.pc = "escaped", !.escaped = @ + 1]

NextRouter ==
    \/ (\E o \in HandlerOutcomes : Len(router.log) < MaxCommands /\ RouteCommandHandle(o))
          /\ UNCHANGED butRouter
    \/ RouteCommandDeferred /\ UNCHANGED butRouter

InitRouting ==
    /\ InitQueue
    /\ InitDownload
    /\ file = "absent"
    /\ InitTracker
    /\ InitRetry
    /\ InitStages

SpecRouter == InitRouting /\ [][NextRouter]_vars

\* the panics of the handlers called so far
Panics == Len(SelectSeq(router.log, LAMBDA o : o = "panic"))

\* C31: a panic of a handler never leaves RouteCommand, every panic is recorded as
\* a runtime error once the call is over, and the router goes on routing.
C31_PanicRecovered ==
    /\ router.escaped = 0
    /\ router.pc # "escaped"
    /\ router.pc = "idle" => router.runtime = Panics

\* ------------------------------------------------ SongDownloaderImpl.ExtractMedia
\* the sample rate a variant may have at most (line 561)
MaxSampleRate == 192000
\* the variants of a master playlist
MaxVariants == 3

\* a component of the AUDIO attribute, split at "-": a word or digits
Word == [numeric |-> FALSE, value |-> 0]
Num(n) == [numeric |-> TRUE, value |-> n]

\* strconv.Atoi of a component
Atoi(c) == [err |-> ~c.numeric, n |-> IF c.numeric THEN c.value ELSE 0]

\* strings.Split(variant.Audio, "-") of the attributes of the model: no "-" in it
\* (or no attribute at all), a rate at the cap, a rate above it, a word where the
\* rate is expected
Audios ==
    {<<Word>>,
     <<Word, Num(MaxSampleRate), Num(24)>>,
     <<Word, Num(MaxSampleRate + 1), Num(24)>>,
     <<Word, Word, Num(24)>>}

Variant(codecs, audio, bw) == [codecs |-> codecs, audio |-> audio, bandwidth |-> bw]

Variants ==
    {Variant("alac", a, bw) : a \in Audios, bw \in {1, 2}}
        \cup {Variant("mp4a", <<Word, Num(44100), Num(16)>>, bw) : bw \in {1, 2}}

\* the orders sort.Slice (not stable) may leave the variants in: every permutation
\* with the average bandwidths descending
Sorted(vs) ==
    {[k \in DOMAIN vs |-> vs[p[k]]] :
        p \in {q \in [DOMAIN vs -> DOMAIN vs] :
                  /\ \A a, b \in DOMAIN vs : a # b => q[a] # q[b]
                  /\ \A a, b \in DOMAIN vs :
                        a < b => vs[q[a]].bandwidth >= vs[q[b]].bandwidth}}

\* ExtractMedia, lines 549-552: the variants are sorted
ExtractMediaSort ==
    /\ media.pc = "sort"
    /\ \E vs \in Sorted(media.variants) :
          media' = [media EXCEPT !.variants = vs, !.pc = "loop", !.i = 1]

\* ExtractMedia, lines 554-572, one iteration: an alac variant has its sample rate
\* read from split[length-2], which is out of range when there is one component;
\* the first one within the cap is taken.  parsed: masterUrl.Parse succeeds.
ExtractMediaVariant(parsed) ==
    /\ media.pc = "loop"
    /\ media.i <= Len(media.variants)
    /\ LET variant == media.variants[media.i]
           split == variant.audio
           length == Len(split)
       IN  IF variant.codecs # "alac"
           THEN media' = [media EXCEPT !.i = @ + 1]
           ELSE IF length - 2 < 0
           THEN media' = [media EXCEPT !.pc = "done", !.result = "panic"]
           ELSE IF Atoi(split[length - 1]).err
           THEN media' = [media EXCEPT !.pc = "done", !.result = "error"]
           ELSE IF Atoi(split[length - 1]).n > MaxSampleRate
           THEN media' = [media EXCEPT !.i = @ + 1]
           ELSE IF ~parsed
           THEN media' = [media EXCEPT !.pc = "done", !.result = "error"]
           ELSE media' = [media EXCEPT !.pc = "done", !.result = "selected"]

\* ExtractMedia, lines 574-576: no variant was taken
ExtractMediaNone ==
    /\ media.pc = "loop"
    /\ media.i > Len(media.variants)
    /\ media' = [media EXCEPT !.pc = "done", !.result = "error"]

NextMedia ==
    \/ ExtractMediaSort /\ UNCHANGED butMedia
    \/ (\E parsed \in BOOLEAN : ExtractMediaVariant(parsed)) /\ UNCHANGED butMedia
    \/ ExtractMediaNone /\ UNCHANGED butMedia

\* ExtractMedia is called on a master playlist with any variants
InitExtractMedia ==
    /\ InitQueue
    /\ InitDownload
    /\ file = "absent"
    /\ errorHandler
    /\ InitTracker
    /\ InitRetry
    /\ InitRouter
    /\ InitObs
    /\ InitSd
    /\ InitFrag
    /\ InitUrl
    /\ InitM4a
    /\ \E n \in 0..MaxVariants :
          \E vs \in [1..n -> Variants] :
              media = [pc |-> "sort", variants |-> vs, i |-> 0, result |-> "none"]

SpecMedia == InitExtractMedia /\ [][NextMedia]_vars

\* a variant that may be selected: ALAC with a sample rate within the cap
Eligible(v) ==
    /\ v.codecs = "alac"
    /\ Len(v.audio) >= 2
    /\ v.audio[Len(v.audio) - 1].numeric
    /\ v.audio[Len(v.audio) - 1].value <= MaxSampleRate

\* C32: the variant selected is an eligible one with the highest average bandwidth
\* of the eligible ones, and with no eligible variant the stage fails.
C32_BestEligibleVariant ==
    media.pc = "done" =>
        /\ media.result = "selected" =>
              /\ Eligible(media.variants[media.i])
              /\ \A w \in Range(media.variants) :
                    Eligible(w) => media.variants[media.i].bandwidth >= w.bandwidth
        /\ (\A w \in Range(media.variants) : ~Eligible(w)) => media.result = "error"

\* ------------------------------------------------ SongDownloaderImpl.extractSong
\* the moof boxes of a file
MaxMoofs == 2
\* trex.DefaultSampleSize and tfhd.DefaultSampleSize of the files of the model
TrexSize == 2
TfhdSize == 1

\* a trun box: its flag 0x200 (the entries carry their sizes) and its entries'
\* SampleSize fields
Trun(flag, sizes) == [flag200 |-> flag, sizes |-> sizes]

\* a moof box with the mdat box paired with it: the number of tfhd boxes, the flag
\* 0x10 of the tfhd (it carries a default size), the truns and the length of the
\* mdat payload
Moof(tfhd, flag, truns, mdat) == [tfhd |-> tfhd, flag10 |-> flag, truns |-> truns, mdat |-> mdat]

Moofs ==
    {Moof(1, FALSE, <<Trun(TRUE, <<1>>)>>, 1),
     Moof(1, FALSE, <<Trun(TRUE, <<1, 1>>)>>, 2),
     Moof(1, FALSE, <<Trun(TRUE, <<1>>), Trun(TRUE, <<1>>)>>, 2),
     Moof(1, TRUE, <<Trun(FALSE, <<0>>)>>, 1),
     Moof(1, FALSE, <<Trun(FALSE, <<0>>)>>, 2),
     Moof(1, FALSE, <<Trun(TRUE, <<1>>)>>, 2),
     Moof(1, FALSE, <<Trun(TRUE, <<2>>)>>, 1),
     Moof(1, TRUE, <<Trun(FALSE, <<0>>)>>, 0),
     Moof(0, FALSE, <<Trun(TRUE, <<1>>)>>, 1),
     Moof(1, FALSE, <<>>, 0)}

\* what may be wrong with the file outside its fragments
Defects ==
    {"none", "unreadable", "malformed", "no trex", "two trex", "no stbl", "two stbl",
     "no enca", "no alac", "two alac"}

\* lines 731-741: the size of a sample, from the trun entry, the tfhd or the trex
sampleSize(moof, t, en) ==
    IF t.flag200 THEN en ELSE IF moof.flag10 THEN TfhdSize ELSE TrexSize

\* the sizes of the samples of a moof, in the order of its truns and their entries
RECURSIVE sizesOf(_, _)
sizesOf(moof, truns) ==
    IF truns = <<>>
    THEN <<>>
    ELSE [k \in DOMAIN Head(truns).sizes |-> sampleSize(moof, Head(truns), Head(truns).sizes[k])]
             \o sizesOf(moof, Tail(truns))

\* lines 728-751: the samples are cut from the front of mdat, which holds left
\* bytes; mdat[n:] with n beyond the length is a run-time panic
RECURSIVE consume(_, _, _)
consume(sizes, left, got) ==
    IF sizes = <<>>
    THEN [panic |-> FALSE, left |-> left, samples |-> got]
    ELSE IF Head(sizes) > left
    THEN [panic |-> TRUE, left |-> left, samples |-> got]
    ELSE consume(Tail(sizes), left - Head(sizes), Append(got, Head(sizes)))

\* what extractSong returns: (nil, err), (nil, nil), (extracted, nil), or it panics
Return(result) == [frag EXCEPT !.pc = "returned", !.result = result]

\* extractSong, lines 607-699: the file is fetched and the boxes outside the
\* fragments are looked up.  A failed request or an unreadable box gives an error; a
\* box count that is not the one expected gives `return nil, err` with err == nil;
\* enca[0] without an enca box is a run-time panic.
extractSongBoxes ==
    /\ frag.pc = "boxes"
    /\ LET d == frag.boxes.defect
       IN  IF d \in {"unreadable", "malformed"}
           THEN frag' = Return("error")
           ELSE IF d \in {"no trex", "two trex", "no stbl", "two stbl"}
           THEN frag' = Return("nil")
           ELSE IF d = "no enca"
           THEN frag' = Return("panic")
           ELSE IF d \in {"no alac", "two alac"}
           THEN frag' = Return("nil")
           ELSE IF Len(frag.boxes.moofs) <= 0
           THEN frag' = [Return("nil") EXCEPT !.alacParam = TRUE]
           ELSE IF frag.boxes.mdats # Len(frag.boxes.moofs)
           THEN frag' = [Return("nil") EXCEPT !.alacParam = TRUE]
           ELSE frag' = [frag EXCEPT !.pc = "moof", !.i = 1, !.alacParam = TRUE]

\* extractSong, lines 701-753, one moof with its mdat
extractSongMoof ==
    /\ frag.pc = "moof"
    /\ frag.i <= Len(frag.boxes.moofs)
    /\ LET moof == frag.boxes.moofs[frag.i]
           c == consume(sizesOf(moof, moof.truns), moof.mdat, frag.samples)
       IN  IF moof.tfhd # 1 \/ Len(moof.truns) <= 0
           THEN frag' = Return("nil")
           ELSE IF c.panic
           THEN frag' = [Return("panic") EXCEPT !.samples = c.samples]
           ELSE IF c.left # 0
           THEN frag' = [Return("error") EXCEPT !.samples = c.samples]
           ELSE frag' = [frag EXCEPT !.samples = c.samples, !.i = @ + 1]

\* extractSong, lines 755-763: all the moofs are done
extractSongReturn ==
    /\ frag.pc = "moof"
    /\ frag.i > Len(frag.boxes.moofs)
    /\ frag' = Return("ok")

\* Download, lines 198-210: an error of extractSong fails the run with
\* network_failure; else info.samples is read, which with a nil info is a run-time
\* panic, as is a panic inside extractSong
DownloadAfterExtractSong ==
    /\ frag.pc = "returned"
    /\ frag' = [frag EXCEPT !.pc = "done",
                            !.run = CASE frag.result = "error" -> ErrorNetworkFailure
                                      [] frag.result = "ok" -> "goes on"
                                      [] OTHER -> "panic"]

NextFrag ==
    \/ extractSongBoxes /\ UNCHANGED butFrag
    \/ extractSongMoof /\ UNCHANGED butFrag
    \/ extractSongReturn /\ UNCHANGED butFrag
    \/ DownloadAfterExtractSong /\ UNCHANGED butFrag

\* the files extractSong is given: fragments of any kind with as many mdat boxes as
\* moof boxes, one less or one more, or a fault outside the fragments
Files ==
    {[defect |-> "none", moofs |-> ms, mdats |-> Len(ms) + d] :
        ms \in UNION {[1..n -> Moofs] : n \in 0..MaxMoofs}, d \in {-1, 0, 1}}
      \cup {[defect |-> d, moofs |-> <<Moof(1, FALSE, <<Trun(TRUE, <<1>>)>>, 1)>>, mdats |-> 1] :
              d \in Defects}

InitExtractSong ==
    /\ InitQueue
    /\ InitDownload
    /\ file = "absent"
    /\ errorHandler
    /\ InitTracker
    /\ InitRetry
    /\ InitRouter
    /\ InitObs
    /\ InitSd
    /\ InitMedia
    /\ InitUrl
    /\ InitM4a
    /\ \E f \in Files :
          frag = [pc |-> "boxes", boxes |-> f, i |-> 0, samples |-> <<>>,
                  alacParam |-> FALSE, result |-> "none", run |-> "none"]

SpecFrag == InitExtractSong /\ [][NextFrag]_vars

\* the samples the sizes of a moof ask for do not fill its mdat exactly
Mismatch(moof) ==
    LET c == consume(sizesOf(moof, moof.truns), moof.mdat, <<>>)
    IN  c.panic \/ c.left # 0

\* the trun entries of the file
RECURSIVE Entries(_)
Entries(moofs) ==
    IF moofs = <<>> THEN 0
    ELSE Len(sizesOf(Head(moofs), Head(moofs).truns)) + Entries(Tail(moofs))

\* a file with everything in place outside the sample sizes
WellFormed(f) ==
    /\ f.defect = "none"
    /\ Len(f.moofs) > 0
    /\ f.mdats = Len(f.moofs)
    /\ \A k \in DOMAIN f.moofs : f.moofs[k].tfhd = 1 /\ Len(f.moofs[k].truns) > 0

\* C33: when the sample sizes of a moof do not use up its mdat exactly, the run
\* fails with network_failure; when extractSong succeeds it gives as many samples as
\* there are trun entries.
C33_MdatConsumedExactly ==
    frag.pc = "done" =>
        /\ (WellFormed(frag.boxes) /\ \E k \in DOMAIN frag.boxes.moofs :
                                          Mismatch(frag.boxes.moofs[k]))
              => frag.run = ErrorNetworkFailure
        /\ frag.result = "ok" => Len(frag.samples) = Entries(frag.boxes.moofs)

\* C39: when extractSong reports no error it gives the samples and the ALAC
\* parameters, and a file with a structural defect fails the run with
\* network_failure.
C39_DefectsAreErrors ==
    frag.pc = "done" =>
        /\ frag.result # "error" => (frag.result = "ok" /\ frag.alacParam)
        /\ (frag.boxes.defect \notin {"none", "unreadable", "malformed"}
               \/ Len(frag.boxes.moofs) = 0
               \/ frag.boxes.mdats # Len(frag.boxes.moofs))
              => frag.run = ErrorNetworkFailure

\* ------------------------------------------------ Download's URL cleaning and ExtractUrlMeta
\* the lengths of the input and of what is appended to it, in symbols
MaxUrlLen == 3
MaxTrailing == 2

\* the symbols inputs are made of: the text of a song URL
\* (https://music.apple.com/us/song/s/1), the text of an album URL
\* (https://music.apple.com/us/album/a/2), a line feed, a NUL byte
SongUrl == "S"
AlbumUrl == "A"
LF == "LF"
NUL == "NUL"
Symbols == {SongUrl, AlbumUrl, LF, NUL}
Texts(n) == UNION {[1..k -> Symbols] : k \in 0..n}

\* the function Download hands to TrimFunc, line 100: r < 32 || r == 127
IsControl(c) == c \in {LF, NUL}

RECURSIVE TrimLeft(_)
TrimLeft(s) == IF s # <<>> /\ IsControl(Head(s)) THEN TrimLeft(Tail(s)) ELSE s

RECURSIVE TrimRight(_)
TrimRight(s) ==
    IF s # <<>> /\ IsControl(s[Len(s)]) THEN TrimRight(SubSeq(s, 1, Len(s) - 1)) ELSE s

\* strings.TrimFunc, lines 99-101
TrimFunc(s) == TrimRight(TrimLeft(s))

\* lines 102-104: the text is cut at its first NUL byte
CutAtNul(s) ==
    IF \E k \in DOMAIN s : s[k] = NUL
    THEN SubSeq(s, 1, (CHOOSE k \in DOMAIN s : s[k] = NUL /\ \A j \in 1..(k - 1) : s[j] # NUL) - 1)
    ELSE s

\* the type and the id in the text of a URL
TypeOf(c) == IF c = SongUrl THEN "song" ELSE "album"
IdOf(c) == IF c = SongUrl THEN "1" ELSE "2"

InvalidUrl == [err |-> ErrorInvalidURL, storefront |-> "", urlType |-> "", id |-> ""]

\* ExtractUrlMeta, lines 345-379: the pattern is looked for anywhere in the text.
\* The match starts at the first URL; its `.*` runs as far as it can without
\* crossing a line feed, so the id is the one of the last URL before the next line
\* feed.  An album URL is parsed by url.Parse, which rejects a text with a control
\* character in it; the URLs of the model have no `i` parameter.
ExtractUrlMeta(s) ==
    IF ~\E k \in DOMAIN s : s[k] \in {SongUrl, AlbumUrl}
    THEN InvalidUrl
    ELSE LET firstUrl == CHOOSE k \in DOMAIN s :
                          /\ s[k] \in {SongUrl, AlbumUrl}
                          /\ \A j \in 1..(k - 1) : s[j] \notin {SongUrl, AlbumUrl}
             lastUrl == CHOOSE k \in firstUrl..Len(s) :
                          /\ s[k] \in {SongUrl, AlbumUrl}
                          /\ \A j \in firstUrl..k : s[j] # LF
                          /\ \A j \in (k + 1)..Len(s) :
                                s[j] \in {SongUrl, AlbumUrl} => \E m \in k..j : s[m] = LF
         IN  IF TypeOf(s[firstUrl]) = "album" /\ \E k \in DOMAIN s : IsControl(s[k])
             THEN InvalidUrl
             ELSE [err |-> NoError, storefront |-> "us", urlType |-> TypeOf(s[firstUrl]) \o "s",
                   id |-> IdOf(s[lastUrl])]

\* Download, lines 99-113: the input is cleaned and parsed; the outcome is the
\* UrlMeta or the invalid_url failure
parse(s) == ExtractUrlMeta(CutAtNul(TrimFunc(s)))

\* Download is given x
DownloadParse ==
    /\ url.alone = NotParsed
    /\ url' = [url EXCEPT !.alone = parse(url.x)]

\* Download is given x with a NUL byte and trailing appended
DownloadParseExtended ==
    /\ url.extended = NotParsed
    /\ url' = [url EXCEPT !.extended = parse(url.x \o <<NUL>> \o url.trailing)]

NextUrl ==
    \/ DownloadParse /\ UNCHANGED butUrl
    \/ DownloadParseExtended /\ UNCHANGED butUrl

InitParse ==
    /\ InitQueue
    /\ InitDownload
    /\ file = "absent"
    /\ errorHandler
    /\ InitTracker
    /\ InitRetry
    /\ InitRouter
    /\ InitObs
    /\ InitSd
    /\ InitMedia
    /\ InitFrag
    /\ InitM4a
    /\ \E x \in Texts(MaxUrlLen), t \in Texts(MaxTrailing) :
          url = [x |-> x, trailing |-> t, alone |-> NotParsed, extended |-> NotParsed]

SpecUrl == InitParse /\ [][NextUrl]_vars

\* C34: parsing x followed by a NUL byte and anything gives what parsing x gives.
C34_NulCutsTrailing ==
    (url.alone # NotParsed /\ url.extended # NotParsed) => url.alone = url.extended

\* ------------------------------------------------ SongDownloaderImpl.WriteM4a
\* the samples per chunk (line 1225)
chunkSize == 5
\* the samples of a file
MaxM4aSamples == 6
\* the bytes of a sample
M4aSizes == {1, 2}
\* the bytes of the file before the tables, and the header of the mdat box
BytesBefore == 100
HeaderSize == 8

\* lines 1505-1545: the stsc entries
stscEntry(firstChunk, samplesPerChunk) ==
    [FirstChunk |-> firstChunk, SamplesPerChunk |-> samplesPerChunk]

stscEntries(numSamples) ==
    IF numSamples % chunkSize = 0
    THEN <<stscEntry(1, chunkSize)>>
    ELSE <<stscEntry(1, chunkSize),
           stscEntry(numSamples \div chunkSize + 1, numSamples % chunkSize)>>

\* line 1573: the number of stco entries
stcoCount(numSamples) == (numSamples + chunkSize - 1) \div chunkSize

\* the sum of the first k sizes
RECURSIVE Sum(_, _)
Sum(sizes, k) == IF k = 0 THEN 0 ELSE sizes[k] + Sum(sizes, k - 1)

\* lines 1225-1590: the tables are written, the chunk offsets as zeros
WriteM4aTables ==
    /\ m4a.pc = "tables"
    /\ LET numSamples == Len(m4a.sizes)
       IN  m4a' = [m4a EXCEPT !.pc = "mdat",
                              !.stsc = stscEntries(numSamples),
                              !.stsz = m4a.sizes,
                              !.stco = [k \in 1..stcoCount(numSamples) |-> 0]]

\* where the mdat box is put: after what was there before and the tables
mdatOffset == BytesBefore + 12 * Len(m4a.stsc) + 4 * Len(m4a.stsz) + 4 * Len(m4a.stco)

\* lines 1979-2007: mdat is written with the samples one after the other, and the
\* chunk offsets are written again: the position of every chunkSize-th sample
WriteM4aMdat ==
    /\ m4a.pc = "mdat"
    /\ LET numSamples == Len(m4a.sizes)
           offset(i) == mdatOffset + HeaderSize + Sum(m4a.sizes, i)
           firsts == {i \in 0..(numSamples - 1) : i % chunkSize = 0}
       IN  m4a' = [m4a EXCEPT !.pc = "done",
                              !.mdat = mdatOffset,
                              !.stco = [k \in 1..Cardinality(firsts) |->
                                           offset((k - 1) * chunkSize)]]

NextM4a ==
    \/ WriteM4aTables /\ UNCHANGED butM4a
    \/ WriteM4aMdat /\ UNCHANGED butM4a

InitWriteM4a ==
    /\ InitQueue
    /\ InitDownload
    /\ file = "absent"
    /\ errorHandler
    /\ InitTracker
    /\ InitRetry
    /\ InitRouter
    /\ InitObs
    /\ InitSd
    /\ InitMedia
    /\ InitFrag
    /\ InitUrl
    /\ \E n \in 1..MaxM4aSamples :
          \E sizes \in [1..n -> M4aSizes] :
              m4a = [pc |-> "tables", sizes |-> sizes, stsc |-> <<>>, stsz |-> <<>>,
                     stco |-> <<>>, mdat |-> 0]

SpecM4a == InitWriteM4a /\ [][NextM4a]_vars

\* how a reader takes the tables: the samples of chunk c are given by the last stsc
\* entry whose first_chunk is not after c
SamplesOfChunk(c) ==
    LET e == CHOOSE k \in DOMAIN m4a.stsc :
                 /\ m4a.stsc[k].FirstChunk <= c
                 /\ \A j \in DOMAIN m4a.stsc : m4a.stsc[j].FirstChunk <= c => j <= k
    IN  m4a.stsc[e].SamplesPerChunk

\* the samples of the chunks before chunk c
RECURSIVE SamplesBefore(_)
SamplesBefore(c) == IF c = 1 THEN 0 ELSE SamplesOfChunk(c - 1) + SamplesBefore(c - 1)

\* the chunk of sample s (counted from 1) by the tables
ChunkOf(s) ==
    CHOOSE c \in DOMAIN m4a.stco : SamplesBefore(c) < s /\ s <= SamplesBefore(c) + SamplesOfChunk(c)

\* the offset of sample s by the tables: the offset of its chunk and the sizes of
\* the samples of the chunk before it
OffsetOf(s) ==
    m4a.stco[ChunkOf(s)] + Sum(m4a.stsz, s - 1) - Sum(m4a.stsz, SamplesBefore(ChunkOf(s)))

\* C35: the tables of a written file agree: first_chunk grows strictly along the
\* stsc entries; there are ceil(n/5) chunk offsets and n sizes; the chunks hold n
\* samples in all; every sample's offset by the tables is its position in mdat.
C35_TablesConsistent ==
    m4a.pc = "done" =>
        LET n == Len(m4a.sizes)
        IN  /\ \A j, k \in DOMAIN m4a.stsc :
                  j < k => m4a.stsc[j].FirstChunk < m4a.stsc[k].FirstChunk
            /\ Len(m4a.stco) = (n + chunkSize - 1) \div chunkSize
            /\ m4a.stsz = m4a.sizes
            /\ SamplesBefore(Len(m4a.stco) + 1) = n
            /\ \A s \in 1..n :
                  OffsetOf(s) = m4a.mdat + HeaderSize + Sum(m4a.sizes, s - 1)

\* ------------------------------------------------ one job of SongHandler.Handle
\* TelegramProgressReporter.ReportError and ReportComplete, lines 122-185: the
\* message is edited when the reporter is active
ReportFinal(op, api) == [op |-> op, old |-> -1, new |-> -1, progress |-> NoProgress, api |-> api]

\* the job's error or completion message has been asked for
Final == \E k \in DOMAIN reports : reports[k].op \in {"ReportError", "ReportComplete"}

\* the phases Download tells OnPhaseChange of, in order: updatePhase(PhaseValidating)
\* changes nothing, the phase being PhaseValidating from the start
DownloadPhases ==
    <<PhaseRank(PhaseDownloading), PhaseRank(PhaseDecrypting), PhaseRank(PhaseWriting),
      PhaseRank(PhaseComplete)>>

\* Handle, lines 96-98 with updatePhase: Download enters its next phase and
\* OnPhaseChange hands it to the tracker
OnPhaseChange ==
    /\ ncall.start = 1
    /\ ~Final
    /\ \E k \in DOMAIN DownloadPhases :
          /\ Len(submitted) = k - 1
          /\ UpdateProgress(Update(DownloadPhases[k], NoProgress))

\* Handle, lines 99-102 with handleError: Download fails and OnError has the
\* reporter show the error
OnError ==
    /\ ncall.start = 1
    /\ ~Final
    /\ producer.pc = "idle"
    /\ LastPhase < PhaseRank(PhaseComplete)
    /\ reports' = Append(reports, ReportFinal("ReportError", rActive))
    /\ UNCHANGED <<ptRunning, ptSession, ptTicker, currentPhase, currentProgress, updateChan,
                   stopChan, doneChan, tickers, loops, callers, producer, rActive,
                   submitted, ncall>>

\* Handle, lines 103-106 with Download lines 285-288: after updatePhase(PhaseComplete)
\* OnComplete has the reporter show the completion
OnComplete ==
    /\ ~Final
    /\ producer.pc = "idle"
    /\ LastPhase = PhaseRank(PhaseComplete)
    /\ reports' = Append(reports, ReportFinal("ReportComplete", rActive))
    /\ UNCHANGED <<ptRunning, ptSession, ptTicker, currentPhase, currentProgress, updateChan,
                   stopChan, doneChan, tickers, loops, callers, producer, rActive,
                   submitted, ncall>>

\* Handle from StartTracking to its return: the reporter is started, then the
\* tracker, Download runs and ends with an error or a completion, the file is
\* uploaded, and the deferred tracker.Stop() runs when Handle returns
NextJob ==
    \/ ncall.start = 0 /\ StartTracking /\ UNCHANGED <<qvars, dvars, evars, svars>>
    \/ rActive /\ ncall.start = 0 /\ Start("a") /\ UNCHANGED <<qvars, dvars, evars, svars>>
    \/ OnPhaseChange /\ UNCHANGED <<qvars, dvars, evars, svars>>
    \/ UpdateProgressSend /\ UNCHANGED <<qvars, dvars, evars, svars>>
    \/ OnError /\ UNCHANGED <<qvars, dvars, evars, svars>>
    \/ OnComplete /\ UNCHANGED <<qvars, dvars, evars, svars>>
    \/ Final /\ ncall.stop = 0 /\ Stop("a") /\ UNCHANGED <<qvars, dvars, evars, svars>>
    \/ StopRead("a") /\ UNCHANGED <<qvars, dvars, evars, svars>>
    \/ StopWait("a") /\ UNCHANGED <<qvars, dvars, evars, svars>>
    \/ Loop /\ UNCHANGED <<qvars, dvars, evars, svars>>

SpecJob == InitTracking /\ [][NextJob]_vars

\* C36: once the error or the completion message of the job is in the chat, no
\* progress and no phase change is rendered into the chat message any more.
C36_FinalMessageStays ==
    \A j, k \in DOMAIN reports :
        (/\ j < k
         /\ reports[j].op \in {"ReportError", "ReportComplete"}
         /\ reports[j].api
         /\ reports[k].op \in {"UpdateProgress", "ReportPhaseChange"})
            => ~reports[k].api

\* ------------------------------------------------ the queue as observers see it
\* C37: the request in the processing slot has status processing, and a request
\* with status queued is in the pending list.
C37_SlotIsProcessing ==
    /\ processing # 0 => status[processing] = StatusProcessing
    /\ \A r \in DOMAIN status : status[r] = StatusQueued => r \in Range(queue)

\* ------------------------------------------------------ the /queue status message
\* createQueueStatusMessage reads the queue through four getters, each of which
\* takes and releases the read lock of the queue by itself; the drainer and the
\* submissions run between them.

\* queueSize := queue.GetQueueSize()
StatusGetQueueSize ==
    /\ obs.pc = "idle"
    /\ obs' = [obs EXCEPT !.pc = "size", !.queueSize = Len(queue)]
    /\ UNCHANGED butObs

\* isProcessing := queue.IsProcessing()
StatusIsProcessing ==
    /\ obs.pc = "size"
    /\ obs' = [obs EXCEPT !.pc = "isProcessing", !.isProcessing = (processing # 0)]
    /\ UNCHANGED butObs

\* currentlyProcessing := queue.GetCurrentlyProcessing()
StatusGetCurrentlyProcessing ==
    /\ obs.pc = "isProcessing"
    /\ obs' = [obs EXCEPT !.pc = "current", !.currentlyProcessing = processing]
    /\ UNCHANGED butObs

\* the pending requests are read, by GetQueueInfo, only if the size read was not 0
StatusGetQueueInfo ==
    /\ obs.pc = "current"
    /\ obs' = [obs EXCEPT !.pc = "done",
                          !.queueInfo = IF obs.queueSize > 0 THEN queue ELSE <<>>]
    /\ UNCHANGED butObs

createQueueStatusMessage ==
    \/ StatusGetQueueSize
    \/ StatusIsProcessing
    \/ StatusGetCurrentlyProcessing
    \/ StatusGetQueueInfo

\* the request the message shows as being processed, 0 for "None"
ShownProcessing ==
    IF obs.isProcessing /\ obs.currentlyProcessing # 0 THEN obs.currentlyProcessing ELSE 0

\* the pending count the message shows, in "Capacity" and in "Queued Requests (n)"
ShownCount == obs.queueSize

\* the pending requests the message lists
ShownPending == obs.queueInfo

\* the submissions made while the /queue command is being handled
MaxSubmits == 2

\* A caller submits a message id never submitted before, a few times.
SubmitFew ==
    /\ ncalls < MaxSubmits
    /\ SubmitDistinct

\* one /queue command against the submissions and the drain goroutines
NextStatus == SubmitFew \/ Drain \/ createQueueStatusMessage

SpecStatus == Init /\ [][NextStatus]_vars

\* C38: the status message is consistent: the pending count it reports is the
\* number of pending requests it lists, and no request is shown both as pending
\* and as being processed.
C38_StatusMessageConsistent ==
    obs.pc = "done" =>
        /\ ShownCount = Len(ShownPending)
        /\ ShownProcessing = 0 \/ ShownProcessing \notin Range(ShownPending)

\* ------------------------------------------------- concurrent calls of Download
\* Download calls made in all, accepted or not
MaxDownloads == 3
\* Cancel calls made in all
MaxCancels == 2

ErrInProgress == "download already in progress"
ErrNoActive == "no active download to cancel"

\* how the body of an accepted Download ends; a panic unwinds through the deferred
\* function like a return does
DownloadOutcomes == {"success", "failure", "cancelled", "panic"}

\* Download lines 76-89, one critical section of sd.mu, without the isActive test
DownloadEnter_NoCheck(c) ==
    /\ sd.calls[c].pc \in {"idle", "returned"}
    /\ sd.started < MaxDownloads
    /\ sd' = [sd EXCEPT !.started = @ + 1,
                        !.isActive = TRUE,
                        !.cancelFunc = sd.started + 1,
                        !.calls[c] = [@ EXCEPT !.pc = "running", !.ctx = sd.started + 1,
                                               !.result = "none"]]
    /\ UNCHANGED butSd

\* Download lines 76-89, one critical section of sd.mu: a call made while the
\* downloader is active returns the error at once; otherwise the downloader becomes
\* active and the cancel function of a new context is kept
DownloadEnter(c) ==
    /\ sd.calls[c].pc \in {"idle", "returned"}
    /\ sd.started < MaxDownloads
    /\ IF sd.isActive
       THEN sd' = [sd EXCEPT !.started = @ + 1,
                             !.rejected = @ + 1,
                             !.calls[c] = [@ EXCEPT !.pc = "returned",
                                                    !.result = ErrInProgress]]
       ELSE sd' = [sd EXCEPT !.started = @ + 1,
                             !.isActive = TRUE,
                             !.cancelFunc = sd.started + 1,
                             !.calls[c] = [@ EXCEPT !.pc = "running",
                                                    !.ctx = sd.started + 1,
                                                    !.result = "none"]]
    /\ UNCHANGED butSd

\* Download lines 99-232, the phases of an accepted call: it ends with OnComplete or,
\* through handleError, with OnError; "download cancelled" needs the context to have
\* been cancelled.  A panic calls no callback.
DownloadRun(c, outcome) ==
    /\ sd.calls[c].pc = "running"
    /\ outcome = "cancelled" => sd.calls[c].ctx \in sd.cancelled
    /\ sd' = [sd EXCEPT !.calls[c] =
                 [@ EXCEPT !.pc = "deferred",
                           !.result = outcome,
                           !.callbacks = IF outcome = "panic" THEN @ ELSE @ + 1]]
    /\ UNCHANGED butSd

\* Download lines 91-97, the deferred function, one critical section of sd.mu
DownloadDeferred(c) ==
    /\ sd.calls[c].pc = "deferred"
    /\ sd' = [sd EXCEPT !.isActive = FALSE,
                        !.cancelFunc = 0,
                        !.calls[c].pc = IF sd.calls[c].result = "panic" THEN "panicked"
                                        ELSE "returned"]
    /\ UNCHANGED butSd

\* Cancel lines 295-308, under sd.mu
CancelDownload ==
    /\ sd.ncancels < MaxCancels
    /\ IF ~sd.isActive
       THEN sd' = [sd EXCEPT !.ncancels = @ + 1, !.lastCancel = ErrNoActive]
       ELSE sd' = [sd EXCEPT !.ncancels = @ + 1, !.lastCancel = "nil",
                             !.cancelled = @ \cup ({sd.cancelFunc} \ {0})]
    /\ UNCHANGED butSd

NextDownloads ==
    \/ \E c \in Callers : DownloadEnter(c)
    \/ \E c \in Callers, outcome \in DownloadOutcomes : DownloadRun(c, outcome)
    \/ \E c \in Callers : DownloadDeferred(c)
    \/ CancelDownload

SpecDownloads == Init /\ [][NextDownloads]_vars

\* the goroutines inside an accepted Download call
Executing == {c \in Callers : sd.calls[c].pc \in {"running", "deferred"}}

\* the downloader is active exactly while one accepted call is executing, and the
\* cancel handle it keeps is that call's
ActiveWhileExecuting ==
    /\ Cardinality(Executing) <= 1
    /\ sd.isActive <=> Executing # {}
    /\ \A c \in Executing : sd.cancelFunc = sd.calls[c].ctx
    /\ ~sd.isActive => sd.cancelFunc = 0

\* goroutine c enters Download in this step
Enters(c) == sd'.started = sd.started + 1 /\ sd'.calls[c] # sd.calls[c]

\* a call made while the downloader is active is rejected and changes nothing else;
\* a call made while it is not active is accepted
RejectedOrAccepted(c) ==
    IF sd.isActive
    THEN /\ sd'.calls[c].pc = "returned"
         /\ sd'.calls[c].result = ErrInProgress
         /\ sd'.calls[c].callbacks = sd.calls[c].callbacks
         /\ \A d \in Callers \ {c} : sd'.calls[d] = sd.calls[d]
         /\ sd'.isActive = sd.isActive
         /\ sd'.cancelFunc = sd.cancelFunc
         /\ sd'.cancelled = sd.cancelled
    ELSE /\ sd'.calls[c].pc = "running"
         /\ sd'.isActive

\* goroutine c leaves an accepted Download in this step
Leaves(c) == sd.calls[c].pc = "deferred" /\ sd'.calls[c].pc # "deferred"

\* Cancel is called in this step
Cancels == sd'.ncancels = sd.ncancels + 1

\* C40: the downloader is active exactly while one Download call is executing; a
\* Download made while it is active is rejected with "download already in progress",
\* calls no callback and leaves the run and its cancel handle alone; when a Download
\* has returned the downloader is not active, and while it is not active Cancel
\* reports that there is no active download and a Download is accepted.
C40_OneDownloadAtATime ==
    /\ []ActiveWhileExecuting
    /\ [][/\ \A c \in Callers : Enters(c) => RejectedOrAccepted(c)
          /\ \A c \in Callers : Leaves(c) => ~sd'.isActive /\ sd'.cancelFunc = 0
          /\ Cancels /\ ~sd.isActive =>
                /\ sd'.lastCancel = ErrNoActive
                /\ sd'.calls = sd.calls
                /\ sd'.cancelled = sd.cancelled
                /\ ~sd'.isActive]_vars

\* one call was rejected while another ran, that one returned cancelled, Cancel then
\* reported no active download, and a new Download has been accepted
C40_Witness ==
    \E c, d \in Callers :
        /\ c # d
        /\ sd.rejected > 0
        /\ sd.calls[d].pc = "returned"
        /\ sd.calls[d].result = "cancelled"
        /\ sd.lastCancel = ErrNoActive
        /\ sd.calls[c].pc = "running"

====
